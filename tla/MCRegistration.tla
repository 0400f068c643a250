--------------------------- MODULE MCRegistration ---------------------------
(***************************************************************************)
(* Instances of Registration for TLC: two pages of one extension, and      *)
(* pages of different extensions whose Call-IDs may meet.                  *)
(***************************************************************************)
EXTENDS Registration, TLC

OneExtension == {"1001"}
TwoExtensions == {"1001", "1002"}

TwoTabs == {"first", "second"}
SameExtension == [s \in TwoTabs |-> "1001"]

ThreePages == {"first", "second", "stranger"}
OwnExtension == ("first" :> "1001") @@ ("second" :> "1002") @@ ("stranger" :> "2001")

Nobody == {}

=============================================================================
