----------------------------- MODULE MCBlogPosts -----------------------------
(* BlogPosts with two posts and two editors.                                *)
EXTENDS BlogPosts, TLC

\* One post is there as a draft.  Images and index share nothing but the table: each is
\* looked at with the other service down.
OneDraft ==
    /\ Init
    /\ Cardinality(up) = 1
    /\ \E p \in Posts : /\ posts[p].slug = 1
                        /\ \A q \in Posts \ {p} : posts[q] = NoRow

MCSpec == OneDraft /\ [][Next]_vars

Symmetry == Permutations(Posts) \cup Permutations(Editors) \cup Permutations(Texts)
=============================================================================
