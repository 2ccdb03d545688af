---------------------------- MODULE MCFunctions ----------------------------
(***************************************************************************)
(* Inputs for TLC: comparisons of each kind, and a clock of short days.    *)
(***************************************************************************)
EXTENDS Inputs, TLC

At(v) == Timestamp(v)
Bio   == Select(Ident("profile"), "bio")

MCTypeOf == [email |-> "string", id |-> "string", create_time |-> "timestamp",
             roles |-> "strings", profile |-> "struct"]
MCTimes == {"noon"}

MCFluxLeaves ==
  {Call("=",  Ident("email"), Const("x")),
   Call("=",  Ident("email"), Const("")),
   Call("!=", Ident("id"), Const("y")),
   Call("!=", Ident("id"), Ident("email")),
   Call("<",  Ident("create_time"), At("noon")),
   Call("=",  Bio, Const("w")),
   Call(":",  Ident("roles"), Const("z"))}

MCLeaves ==
  MCFluxLeaves \cup
  {Call("=",  Ident("id"), Ident("email")),
   Call("<",  Ident("create_time"), At("no time")),
   Call("=",  Const("email"), Const("w")),
   Call("!=", Ident("nowhere"), Const("w")),
   Call(":",  Bio, Const("w")),
   Call(":",  Bio, Number("w")),
   Call(":",  Select(Bio, "en"), Const("w")),
   Call("=",  Select(Bio, "en"), Const("w")),
   Call(":",  Ident("email"), Const("z"))}

MCHijacks == [target : {"email"}, name : {"email_uid"}, value : {"new"}]
             \cup [target : {"create_time"}, name : {"time_uid"}, value : {"new"}]

MCOwnerOf == [me |-> "uid1", you |-> "uid2"]

MCRequests ==
  [id : {"me", "you", "nobody"}, authenticated : {"uid1"},
   start : {NoTime, 1, 5}, stop : {NoTime, 4, 9}, window : {NoTime, 0, 2, 3, 4}]
MCNows == {6, 8}
MCTriggers == [time : {1, 4, 5, 7}, status : {"completed", "errored"}, uid : {"uid1", "uid2"}]

MCCharacters == {"a", Dash, Bar}
=============================================================================
