------------------------------- MODULE Options -------------------------------
(* Rust's Option: a value, or None. *)

CONSTANT None

Opt(S) == S \cup {None}
=============================================================================
