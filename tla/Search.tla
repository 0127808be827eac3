------------------------------- MODULE Search -------------------------------
(***************************************************************************)
(* container::search (container.rs): a scheduler looks for a container     *)
(* with a given label among those it can reach through known_containers.   *)
(* Those lists are lock-free (collections/list.rs): a push by another      *)
(* thread puts a container in front, and an iteration under way does not   *)
(* see it.  Whether the label of a container is the one sought is all that *)
(* is kept of labels.                                                      *)
(***************************************************************************)
EXTENDS Naturals, Sequences

CONSTANTS
    Container,     \* the containers
    Lists,         \* known_containers lists there may be when the search starts
    MaxKnown,      \* containers known to a container, at most
    None           \* no container

ASSUME SearchAssumption == Lists \subseteq Seq(Container) /\ MaxKnown \in Nat /\ None \notin Container

VARIABLES
    known,         \* Container::known_containers, newest first
    before,        \* what it was when the search started
    root, avoid,   \* the arguments
    match,         \* the containers whose label is the one sought
    containers,    \* the stack of containers to look at
    visited, found,
    result, done   \* what was returned, and whether the search has

args == <<before, root, avoid, match>>
searchVars == <<known, args, containers, visited, found, result, done>>

SearchInit ==
    /\ known \in [Container -> Lists] /\ before = known
    /\ root \in Container /\ avoid \in Container /\ match \in SUBSET Container
    /\ containers = <<root>> /\ visited = {} /\ found = <<>>
    /\ result = None /\ done = FALSE

Members(s) == {s[i] : i \in 1 .. Len(s)}

\* List::push: another thread comes to know of a container.
push_known(c, ct) ==
    /\ Len(known[c]) < MaxKnown
    /\ known' = [known EXCEPT ![c] = <<ct>> \o @]
    /\ UNCHANGED <<args, containers, visited, found, result, done>>

Top == containers[Len(containers)]
Rest == SubSeq(containers, 1, Len(containers) - 1)

\* Mutant: the top of the stack is looked at and not popped.
skip_peeks ==
    /\ containers # <<>> /\ Top \in visited
    /\ containers' = containers
    /\ UNCHANGED <<known, args, visited, found, result, done>>

\* An iteration that pops a container it has visited.
skip ==
    /\ containers # <<>> /\ Top \in visited
    /\ containers' = Rest
    /\ UNCHANGED <<known, args, visited, found, result, done>>

\* Mutant: a container that is found is not looked into.
visit_stops ==
    /\ containers # <<>> /\ Top \notin visited
    /\ visited' = visited \cup {Top}
    /\ found' = IF Top # avoid /\ Top \in match THEN Append(found, Top) ELSE found
    /\ containers' = IF Top \in match THEN Rest ELSE Rest \o known[Top]
    /\ UNCHANGED <<known, args, result, done>>

\* Mutant: a container that knows no other pushes a null reference.
visit_pushes_null ==
    /\ containers # <<>> /\ Top \notin visited
    /\ visited' = visited \cup {Top}
    /\ found' = IF Top # avoid /\ Top \in match THEN Append(found, Top) ELSE found
    /\ containers' = IF known[Top] = <<>> THEN Append(Rest, None) ELSE Rest \o known[Top]
    /\ UNCHANGED <<known, args, result, done>>

\* An iteration that visits one.
visit ==
    /\ containers # <<>> /\ Top \notin visited
    /\ visited' = visited \cup {Top}
    /\ found' = IF Top # avoid /\ Top \in match THEN Append(found, Top) ELSE found
    /\ containers' = Rest \o known[Top]
    /\ UNCHANGED <<known, args, result, done>>

return ==
    /\ containers = <<>> /\ ~done
    /\ result' = IF found = <<>> THEN None ELSE found[Len(found)]
    /\ done' = TRUE
    /\ UNCHANGED <<known, args, containers, visited, found>>

search == skip \/ visit \/ return

SearchNext == search \/ \E c, ct \in Container : push_known(c, ct)

SearchSpec == SearchInit /\ [][SearchNext]_searchVars /\ WF_searchVars(search)

-----------------------------------------------------------------------------
(* Properties                                                              *)

SearchTypeOK ==
    /\ known \in [Container -> Seq(Container)] /\ before \in [Container -> Seq(Container)]
    /\ root \in Container /\ avoid \in Container /\ match \in SUBSET Container
    /\ containers \in Seq(Container) /\ visited \in SUBSET Container /\ found \in Seq(Container)
    /\ result \in Container \cup {None} /\ done \in BOOLEAN

\* The containers that can be reached from root by following g: they are in
\* every set that has root and is closed under g.
Closed(S, g) == \A c \in S : Members(g[c]) \subseteq S
Reach(g) ==
    {c \in Container : \A S \in SUBSET Container : root \in S /\ Closed(S, g) => c \in S}

Wanted(g) == (Reach(g) \cap match) \ {avoid}

\* What search returns can be reached, has the label and is not the container
\* to avoid (a scheduler never yields to itself); and if it returns nothing,
\* no such container could be reached when it was called.
SearchCorrect ==
    done => /\ result # None => result \in Wanted(known)
            /\ result = None => Wanted(before) = {}

\* The search ends, although the containers may know each other in circles
\* and may come to know more meanwhile.
Terminates == <>done
=============================================================================
