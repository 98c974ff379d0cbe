---- MODULE PatchHelper ----
(***************************************************************************)
(* The object snapshot kept by sigs.k8s.io/cluster-api/util/patch.Helper,  *)
(* as the two scopes of pkg/cloud/scope use it: NewHelper takes `before'   *)
(* once, when the scope is built, and PatchObject/Close may be called many *)
(* times on it.  Each call sends a JSON merge patch holding the fields     *)
(* whose value now differs from `before'; a field that went back to its    *)
(* value in `before' is in no patch, whatever the server stores.           *)
(*                                                                         *)
(* One call issues one request for metadata and spec and another for the   *)
(* status subresource, so either may fail alone: `sent' says whether the   *)
(* request that carries this field reached the server.                     *)
(***************************************************************************)

\* The value the API server holds for a field after a Patch call.
Merge(sent, before, after, stored) ==
    IF sent /\ after # before THEN after ELSE stored

====
