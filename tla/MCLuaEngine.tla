---------------------------- MODULE MCLuaEngine ----------------------------
(* Small instances of LuaEngine for TLC.  A short execution does nothing a *)
(* long one may not do, so that TwoKinds covers all three kinds.           *)
EXTENDS LuaEngine

TwoKinds == {"long", "runaway"}
Ending == {"short"}
HeartBeatOn == {TRUE}
HeartBeatOff == {FALSE}
Either == {TRUE, FALSE}
=============================================================================
