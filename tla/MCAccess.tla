------------------------------ MODULE MCAccess ------------------------------
(***************************************************************************)
(* Two users, one of them a member of both firms; a client of the first    *)
(* firm that both its members can access, and another that neither can     *)
(* until access is granted.  Every role is held by m1, some of them only   *)
(* after a change.                                                         *)
(***************************************************************************)
EXTENDS Access, TLC

CONSTANTS u1, u2, f1, f2, m1, m2, m3, c1, c2

MCUserOf == m1 :> u1 @@ m2 :> u2 @@ m3 :> u2
MCFirmOf == m1 :> f1 @@ m2 :> f1 @@ m3 :> f2
MCClientFirm == c1 :> f1 @@ c2 :> f1
MCInitRole == m1 :> {"accountant", "client_submitter", "auditor"} @@ m2 :> {"senior_reviewer"} @@ m3 :> {"accountant"}
MCInitAccess == {<<m1, c1>>, <<m2, c1>>}
=============================================================================
