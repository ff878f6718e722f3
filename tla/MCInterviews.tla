---------------------------- MODULE MCInterviews ----------------------------
(* Bounded instances of Interviews and InterviewHistory for TLC. *)
EXTENDS InterviewHistory, TLC

CONSTANTS a, b

\* One criterion, two in either order, and one given twice.
FourLists == {<<a>>, <<a, b>>, <<b, a>>, <<b, b>>}

\* One criterion of two.
Singles == {<<a>>, <<b>>}

Interchangeable ==
    Permutations(Users) \cup Permutations(Workspaces) \cup
    Permutations(Categories) \cup Permutations(Interviews) \cup
    Permutations(Requests)
=============================================================================
