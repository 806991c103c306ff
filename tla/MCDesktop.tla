------------------------------ MODULE MCDesktop ------------------------------
(* Small instances of Desktop: two windows and two applications.             *)
EXTENDS Desktop

TypedCommands == {<<"wmopenterm", None>>, <<"wmclose", 0>>}

\* What the run that refutes a statement needs.
TwoCommands == {<<"wmopenterm", None>>, <<"wmopenfs", None>>}

\* States in which an interrupt has struck are checked and not explored further.
NoUpset == upset = {}
=============================================================================
