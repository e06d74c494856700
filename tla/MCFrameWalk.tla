---------------------------- MODULE MCFrameWalk -----------------------------
(***************************************************************************)
(* FrameWalk for TLC: a stack of five words, of which the last is the end  *)
(* of the readable memory, under a handler and one thread of the           *)
(* application.                                                            *)
(***************************************************************************)
EXTENDS FrameWalk

StackWords == 1 .. 5
Code == {20, 30}
Libs == {<<29, 31>>}

Sound   == <<3, 20, 0, 21, 0>>   \* two frames, at 1 and 3
Looping == <<1, 20, 3, 21, 0>>   \* frames that point at themselves
Back    == <<3, 20, 1, 21, 0>>   \* a frame that points down the stack
HalfOut == <<3, 20, 5, 21, 0>>   \* a frame whose second word is unreadable
Listed  == <<3, 20, 0, 30, 0>>   \* a caller in a blocklisted library
Deep    == <<2, 3, 0, 21, 0>>    \* three frames, one word apart: deeper than MaxDepth

Stacks == {Sound, Looping, Back, HalfOut, Listed, Deep}
=============================================================================
