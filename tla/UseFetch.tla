------------------------------ MODULE UseFetch ------------------------------
(***************************************************************************)
(* The hook by which every page gets its data (lib/useFetch.ts): what it   *)
(* remembers of one component, and how each event changes it.              *)
(*                                                                         *)
(* A component has one `mounted' flag for all its requests.  A change of   *)
(* the dependencies clears it and sets it again at once, so an answer that *)
(* was asked for before the change is still taken.                         *)
(***************************************************************************)
CONSTANT NoData    (* No answer has come yet.                              *)

(* As it mounts: data, error, loading.  (`refreshing' only turns a dot.)   *)
Mounted == [data |-> NoData, error |-> FALSE, loading |-> TRUE]

(* The effect, at the mount and whenever the dependencies change: the      *)
(* skeletons are shown again, the old data is kept beneath them.           *)
Begun(h, enabled) == [h EXCEPT !.loading = enabled]

(* An answer: whichever request it is for, it is the last word.            *)
Answered(h, d) == [h EXCEPT !.data = d, !.error = FALSE, !.loading = FALSE]

(* Mutant: after a failure the skeletons stay.                             *)
FailedLoading(h) == [h EXCEPT !.error = TRUE]

(* A failure keeps the data.                                               *)
Failed(h) == [h EXCEPT !.error = TRUE, !.loading = FALSE]

Hooks(Payload) == [data : Payload \cup {NoData}, error : BOOLEAN, loading : BOOLEAN]
=============================================================================
