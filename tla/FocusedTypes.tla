------------------------------ MODULE FocusedTypes ------------------------------
(* The types of the focused search (focused.py): arrows and opaque atoms.      *)
EXTENDS Integers, FiniteSets, SequencesExt

\* No limit to the depth.
NoLimit == -1

\* TypeExpr: an arrow is its domains and its result, an atom has no domains.
Arrow(from, to) == [from |-> from, to |-> to]
Atom(a) == Arrow(<<>>, a)
IsArrow(t) == t.from # <<>>

=================================================================================
