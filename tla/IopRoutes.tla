------------------------------- MODULE IopRoutes --------------------------------
(* The service registry of IopSubsystem: which service of the IOP answers a call to a
   service id (sid). Core services always exist; the profile that matches the game's
   ELF makes more, which take precedence. Loading another ELF configures it again.

   A service is an instance: made counts the configurations, and a service of an
   earlier one no longer exists. What a service keeps, and its reset, is left out. *)
EXTENDS Integers

CONSTANTS
    Sids,
    Core,         \* the services of createCoreServices
    Profiles,     \* all profiles, built in or of a plugin
    Builtin,      \* those of createBuiltinProfiles
    Makes,        \* Makes[p]: the services the factory of profile p makes
    SidsOf,       \* SidsOf[s]: the sids service s lists, in order
    Identities,   \* the ELF files a player may load
    Specificity,  \* Specificity[p][i]: matchSpecificity of p's matcher with i, or -1
    None,
    MaxMade       \* bounds the configurations of a model

Instance(s, n) == [service |-> s, made |-> n]

ASSUME IopAssumption ==
    /\ Builtin \subseteq Profiles
    /\ \A p \in Profiles : Makes[p] \cap Core = {}
    /\ \A p \in Profiles, i \in Identities : Specificity[p][i] \in Int
    /\ None \notin Profiles
    /\ \A s \in Core \cup UNION {Makes[p] : p \in Profiles}, n \in 0 .. MaxMade :
        None # Instance(s, n)
    /\ MaxMade \in Nat

VARIABLES
    profiles,        \* the catalog
    profileServices, \* the services of the active profile
    activeProfile,
    routes,          \* routes[sid]: the service that answers, or None
    made,            \* the number of configurations
    outcome          \* what the last configure() returned, "none" before

iopVars == <<profiles, profileServices, activeProfile, routes, made, outcome>>

CoreServices == {Instance(s, 0) : s \in Core}
Made(p, n) == {Instance(s, n) : s \in Makes[p]}

Claims(x, sid) == \E n \in DOMAIN SidsOf[x.service] : SidsOf[x.service][n] = sid

\* A layer lists no sid twice, in one service or in two: addLayer returns true.
LayerValid(S) ==
    \A x, y \in S :
        \A m \in DOMAIN SidsOf[x.service], n \in DOMAIN SidsOf[y.service] :
            SidsOf[x.service][m] = SidsOf[y.service][n] => x = y /\ m = n

Layer(S, sid) ==
    IF \E x \in S : Claims(x, sid) THEN CHOOSE x \in S : Claims(x, sid) ELSE None

\* rebuildRoutes: a layer that is not valid stays out, and those above it too.
rebuildRoutes(S) ==
    [sid \in Sids |->
        IF ~LayerValid(CoreServices) THEN None
        ELSE IF LayerValid(S) /\ Layer(S, sid) # None THEN Layer(S, sid)
        ELSE Layer(CoreServices, sid)]

\* The profiles that match i most closely.
Best(i) ==
    {p \in profiles :
        /\ Specificity[p][i] >= 0
        /\ \A q \in profiles : Specificity[q][i] <= Specificity[p][i]}

--------------------------------------------------------------------------------
(* configure. It first destroys the services of the active profile. *)

\* Mutant: the routes are left as they were.
RoutesKept == profileServices' = {} /\ activeProfile' = None /\ UNCHANGED routes

\* No profile is active; the routes are rebuilt.
CoreOnly ==
    /\ profileServices' = {} /\ activeProfile' = None
    /\ routes' = rebuildRoutes({})

Configure == made < MaxMade /\ made' = made + 1 /\ UNCHANGED profiles

ConfigureUnmatched(i) ==
    /\ Configure /\ Best(i) = {} /\ CoreOnly
    /\ outcome' = IF LayerValid(CoreServices) THEN "ok" ELSE "failed"

ConfigureAmbiguous(i) ==
    /\ Configure /\ CoreOnly
    /\ \E p, q \in Best(i) : p # q
    /\ outcome' = "failed"

\* The factory of the profile throws.
FactoryThrows(i) ==
    /\ Configure /\ CoreOnly
    /\ \E p \in Best(i) : Best(i) = {p}
    /\ outcome' = "failed"

Activate(i) ==
    /\ Configure
    /\ \E p \in Best(i) :
        /\ Best(i) = {p}
        /\ LayerValid(CoreServices) /\ LayerValid(Made(p, made'))
        /\ profileServices' = Made(p, made') /\ activeProfile' = p
        /\ routes' = rebuildRoutes(Made(p, made'))
    /\ outcome' = "ok"

\* The services the profile made clash with each other, or one with itself.
Clash(i) ==
    /\ Configure /\ CoreOnly
    /\ \E p \in Best(i) :
        /\ Best(i) = {p}
        /\ ~(LayerValid(CoreServices) /\ LayerValid(Made(p, made')))
    /\ outcome' = "failed"

\* Plugins add their profiles to the catalog, before an ELF is loaded.
loadPlugins ==
    /\ made = 0
    /\ profiles' = Profiles
    /\ UNCHANGED <<profileServices, activeProfile, routes, made, outcome>>

IopInit ==
    /\ profiles = Builtin /\ profileServices = {} /\ activeProfile = None
    /\ routes = rebuildRoutes({})
    /\ made = 0 /\ outcome = "none"

IopNext ==
    \/ loadPlugins
    \/ \E i \in Identities :
        \/ ConfigureUnmatched(i) \/ ConfigureAmbiguous(i) \/ FactoryThrows(i)
        \/ Activate(i) \/ Clash(i)

--------------------------------------------------------------------------------
\* However configure() ends, a route leads to a service that still exists and claims
\* the sid; every sid of the active profile is answered by that profile and every other
\* sid of a core service by the core; and after a failure no profile is active.
RoutesServed ==
    /\ \A sid \in Sids : routes[sid] # None =>
        /\ routes[sid] \in CoreServices \cup profileServices
        /\ Claims(routes[sid], sid)
    /\ \A x \in profileServices, sid \in Sids : Claims(x, sid) => routes[sid] = x
    /\ LayerValid(CoreServices) => \A x \in CoreServices, sid \in Sids :
        Claims(x, sid) => routes[sid] \in profileServices \cup {x}
    /\ profileServices = IF activeProfile = None THEN {} ELSE Made(activeProfile, made)
    /\ outcome = "failed" => activeProfile = None
================================================================================
