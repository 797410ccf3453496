---------------------------- MODULE Preferences -----------------------------
(***************************************************************************)
(* The long-term preferences of a buyer, oldest first: how the two stores  *)
(* change the list, and PreferenceSelector, which picks what a turn is     *)
(* told.  A preference is a kind and a statement; a rendered list stands   *)
(* for itself, as two lists render alike only if they are equal.           *)
(***************************************************************************)
EXTENDS Naturals, Sequences, SequencesExt, Lists

CONSTANTS Statements,
          TopK             \* preference_top_k

ASSUME PreferenceAssumption == TopK \in Nat

Preference == [kind : {"like", "dislike"}, statement : Statements]

\* A second copy of a preference is not kept.
Appended(list, p) == IF p \in Range(list) THEN list ELSE Append(list, p)

\* delete matches the statement exactly, whatever the kind.
Deleted(list, statement) == Filtered(list, {p \in Preference : p.statement # statement})

Dislikes(list) == Filtered(list, {p \in Preference : p.kind = "dislike"})
Likes(list) == Filtered(list, {p \in Preference : p.kind # "dislike"})

\* _latest_first; by relevance it may be any TopK of them.
Latest(likes) == SubSeq(likes, Len(likes) - TopK + 1, Len(likes))

\* select: all dislikes, and TopK of the likes.
Selected(list) ==
    Dislikes(list) \o (IF Len(Likes(list)) <= TopK THEN Likes(list) ELSE Latest(Likes(list)))
=============================================================================
