----------------------------- MODULE MCRequests -----------------------------
(* Instances of Requests for TLC. *)
EXTENDS Requests

CONSTANTS n1, n2, n3, n4

\* Paths by their names, "ff-1", "ff-2", "ff-21", "ff-2-1", "fff", Source, and what may
\* tell them apart: the system, the signer, the nar.
F == 102
Of(name, hash, sys, signer, nar) ==
    [name |-> name, hash |-> hash, sys |-> sys, signer |-> signer, nar |-> nar]
Old    == Of(<<F, F, Dash, 49>>, 1, "x86_64", "upstream", n1)
New    == Of(<<F, F, Dash, 50>>, 2, "x86_64", "upstream", n2)
Same   == Of(<<F, F, Dash, 50>>, 3, "x86_64", "upstream", n2)
Longer == Of(<<F, F, Dash, 50, 49>>, 4, "x86_64", "upstream", n1)
Output == Of(<<F, F, Dash, 50, Dash, 49>>, 5, "x86_64", "upstream", n1)
Other  == Of(<<F, F, Dash, 50>>, 6, "i686", "upstream", n1)
Local  == Of(<<F, F, Dash, 50>>, 7, "x86_64", Unsigned, n1)
Small  == Of(<<F, F, F>>, 8, "x86_64", "upstream", n3)
Large  == Of(<<F, F, Dash, 51>>, 9, "x86_64", "upstream", n4)
Src    == Of(Source, 10, "x86_64", "upstream", n3)

NarSizes  == n1 :> 5 @@ n2 :> 6 @@ n3 :> 2 @@ n4 :> 9
FileSizes == n1 :> 3 @@ n2 :> 4 @@ n3 :> 1 @@ n4 :> 4
DiffSizes == n1 :> 1 @@ n2 :> 1 @@ n3 :> 0 @@ n4 :> 2

Paths == {Old, New, Same, Longer, Output, Other, Local, Small, Large, Src}

NoPaths == {}
Movable == {Old, Other}
Asked == {Old, New, Same, Small, Local, Src}
Cached == Paths \ {Local}

Is(valid, unregistered) ==
    [p \in Paths |-> IF p \in valid THEN "valid" ELSE IF p \in unregistered THEN "unregistered" ELSE "no"]

\* A machine that serves has a path, or another, that is being built, with it;
\* one that simulates has all of them, or all but one.
OnMachine == [serve |-> {Is({Old}, {}), Is({Old}, {Other})},
              sim   |-> {Is(Paths, {}), Is(Paths \ {Other}, {Other})}]
=============================================================================
