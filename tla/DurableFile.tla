----------------------------- MODULE DurableFile -----------------------------
(***************************************************************************)
(* A file written by durable replacement: a temporary file, a rename and   *)
(* the barriers of both, as rns_identity::persistence does it for the      *)
(* modules of this repository (it is used at admission_store.rs:8-11 and,  *)
(* under save_verified_durable, in delivery_ratchet.rs).                   *)
(***************************************************************************)
CONSTANT None   \* the content of a file that does not exist

(* `vis` is what the running system reads back and `may` the contents that  *)
(* a power loss can leave behind.                                           *)
File(Content) == [vis: Content \cup {None}, may: SUBSET (Content \cup {None})]
Settled(v) == [vis |-> v, may |-> {v}]

(* "ok": replaced, all barriers passed.  "notCommitted": nothing happened.  *)
(* "uncertain": replaced, but a barrier failed and the caller has an error. *)
(* "torn": as "uncertain", and the process dies before the call returns.    *)
Written(file, v, o) ==
    IF o = "ok" THEN Settled(v)
    ELSE IF o \in {"uncertain", "torn"} THEN [vis |-> v, may |-> file.may \cup {v}]
    ELSE file

Reconciled(file, o) == Written(file, file.vis, o)
=============================================================================
