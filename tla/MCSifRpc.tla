-------------------------------- MODULE MCSifRpc --------------------------------
(* Constants for model checking SifRpc: a core service, one profile that takes over the
   core's sid, one whose services clash, one whose service lists a sid twice, and one of
   a plugin that matches the same game as the first. *)
EXTENDS SifRpc, TLC

CONSTANTS
    core, sound, stream, extra, echo,    \* services
    game, clashing, doubled, plugin,     \* profiles
    disc, other, broken, faulty,         \* ELF files
    s1, s2,                              \* sids
    r1, r2                               \* server records

MakesOf ==
    game :> {sound} @@ clashing :> {sound, stream} @@ doubled :> {echo} @@ plugin :> {extra}
ListedSids ==
    core :> <<s1>> @@ sound :> <<s1>> @@ stream :> <<s2, s1>> @@ extra :> <<s2>> @@
    echo :> <<s2, s2>>

\* How well a profile matches each ELF file: not at all, unless it is in best.
Matching(best) ==
    [i \in Identities |-> IF i \in DOMAIN best THEN best[i] ELSE -1]
Matches ==
    game :> Matching(disc :> 1) @@
    clashing :> Matching(broken :> 1) @@
    doubled :> Matching(faulty :> 1) @@
    plugin :> Matching(disc :> 1 @@ other :> 2)

\* The core leaves the call to the server in the game; the others dispatch a guest
\* function of their own, or complete the call themselves.
PossibleAnswers ==
    core :> {Unhandled} @@
    sound :> {[Unhandled EXCEPT !.dispatch = TRUE]} @@
    stream :> {Unhandled} @@
    echo :> {Unhandled} @@
    extra :> {[dispatch |-> FALSE, suppressServer |-> TRUE, suppressCallback |-> b] : b \in BOOLEAN}

Symmetry == Permutations(Clients) \cup Permutations(Threads) \cup Permutations(Queues)
                \cup Permutations(Records \ Runs)
================================================================================
