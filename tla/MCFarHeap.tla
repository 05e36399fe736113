------------------------------ MODULE MCFarHeap ------------------------------
(* Two regions that touch, as the 64 KB banks of rtos65816.c do; the first  *)
(* has room for several blocks, so blocks are freed in any order.           *)
EXTENDS FarHeap

MCRegions  == <<Block(2, 9), Block(11, 5)>>
MCArrays   == {<<1, 2>>, <<2, 2>>, <<3, 4>>}
=============================================================================
