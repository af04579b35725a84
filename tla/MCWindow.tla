------------------------------- MODULE MCWindow -------------------------------
(* Window on a small instance. *)
EXTENDS Window

\* A plain name, and one with a bar.
WindowPaths == {<<"a">>, <<"b", "c">>}

==============================================================================
