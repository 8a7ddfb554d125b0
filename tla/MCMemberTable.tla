---------------------------- MODULE MCMemberTable ----------------------------
(***************************************************************************)
(* Instances of MemberTable for TLC: the forms of its runs.                *)
(***************************************************************************)
EXTENDS MemberTable, TLC

CONSTANTS w1, w2, p1, e1, empty

AllNames == {NoName, {w1}, {w1, w2}}

FormOf(name, phone, email) == [NAME |-> name, PHONENUMBER |-> phone, EMAIL |-> email]

\* Forms that Joi accepts: the second has the number of the first, the third its
\* name and, as its number, the address of all three.
ValidForms ==
  { FormOf({w1}, p1, e1), FormOf({w1, w2}, p1, e1), FormOf({w1}, e1, e1) }

\* ... and forms that it complains about: no name, a null number and a number
\* where the address belongs; a null name and an empty number.
SomeForms == ValidForms \cup { FormOf(Absent, None, p1), FormOf(None, empty, Absent) }

\* Requests are interchangeable; ids are not, since the oldest row of a match is
\* the one found.
Symmetry == Permutations(Slots)
=============================================================================
