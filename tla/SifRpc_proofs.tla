------------------------------ MODULE SifRpc_proofs ------------------------------
(* Proofs about IopRoutes and SifRpc: routes, bound clients, calls in flight and the
   chains of servers and queues in guest memory, for any services and profiles and any
   number of threads, clients, servers and queues. *)
EXTENDS SifRpc, QueueOps_proofs

--------------------------------------------------------------------------------
(* Routes *)

\* The services that may ever exist.
Existing(x) ==
    \E s \in Core \cup UNION {Makes[p] : p \in Profiles}, n \in 0 .. MaxMade : x = Instance(s, n)

IopTypes ==
    /\ profiles \subseteq Profiles
    /\ made \in 0 .. MaxMade

\* A layer names a service of its own for exactly the sids its services claim.
LEMMA LayerNames ==
    ASSUME NEW S, NEW sid, \A x \in S : Existing(x)
    PROVE  /\ Layer(S, sid) # None => Layer(S, sid) \in S /\ Claims(Layer(S, sid), sid)
           /\ (\E x \in S : Claims(x, sid)) => Layer(S, sid) # None
<1>1. CASE \E x \in S : Claims(x, sid)
  <2>1. /\ Layer(S, sid) \in S
        /\ Claims(Layer(S, sid), sid)
    BY <1>1 DEF Layer
  <2>2. Layer(S, sid) # None
    BY <2>1, IopAssumption DEF Existing
  <2> QED BY <2>1, <2>2
<1>2. CASE ~ \E x \in S : Claims(x, sid)
  BY <1>2 DEF Layer
<1> QED BY <1>1, <1>2

LEMMA CoreExists == \A x \in CoreServices : Existing(x)
BY IopAssumption DEF CoreServices, Existing

LEMMA MadeExists ==
    ASSUME NEW p \in Profiles, NEW n \in 0 .. MaxMade
    PROVE  \A x \in Made(p, n) : Existing(x)
BY DEF Made, Existing

\* What rebuildRoutes makes of a layer of profile services, empty or valid.
LEMMA RebuiltServe ==
    ASSUME NEW S, \A x \in S : Existing(x),
           S = {} \/ (LayerValid(CoreServices) /\ LayerValid(S))
    PROVE  LET r == rebuildRoutes(S) IN
           /\ \A sid \in Sids : r[sid] # None =>
                r[sid] \in CoreServices \cup S /\ Claims(r[sid], sid)
           /\ \A x \in S, sid \in Sids : Claims(x, sid) => r[sid] = x
           /\ LayerValid(CoreServices) => \A x \in CoreServices, sid \in Sids :
                Claims(x, sid) => r[sid] \in S \cup {x}
<1> DEFINE r == rebuildRoutes(S)
<1>1. ASSUME NEW sid \in Sids
      PROVE  r[sid] = IF ~LayerValid(CoreServices) THEN None
                      ELSE IF LayerValid(S) /\ Layer(S, sid) # None THEN Layer(S, sid)
                      ELSE Layer(CoreServices, sid)
  BY DEF rebuildRoutes
<1> HIDE DEF r
<1>2. ASSUME NEW sid \in Sids
      PROVE  /\ Layer(S, sid) # None => Layer(S, sid) \in S /\ Claims(Layer(S, sid), sid)
             /\ (\E x \in S : Claims(x, sid)) => Layer(S, sid) # None
  BY LayerNames
<1>3. ASSUME NEW sid \in Sids
      PROVE  /\ Layer(CoreServices, sid) # None =>
                    /\ Layer(CoreServices, sid) \in CoreServices
                    /\ Claims(Layer(CoreServices, sid), sid)
             /\ (\E x \in CoreServices : Claims(x, sid)) => Layer(CoreServices, sid) # None
  BY LayerNames, CoreExists
<1>4. \A sid \in Sids : r[sid] # None => r[sid] \in CoreServices \cup S /\ Claims(r[sid], sid)
  BY <1>1, <1>2, <1>3
<1>5. ASSUME NEW x \in S, NEW sid \in Sids, Claims(x, sid)
      PROVE  r[sid] = x
  <2>1. LayerValid(CoreServices) /\ LayerValid(S)
    OBVIOUS
  <2>2. Layer(S, sid) \in S /\ Claims(Layer(S, sid), sid) /\ Layer(S, sid) # None
    BY <1>2, <1>5
  <2>3. Layer(S, sid) = x
    BY <2>1, <2>2, <1>5 DEF LayerValid, Claims
  <2> QED BY <2>1, <2>2, <2>3, <1>1
<1>6. ASSUME LayerValid(CoreServices), NEW x \in CoreServices, NEW sid \in Sids, Claims(x, sid)
      PROVE  r[sid] \in S \cup {x}
  <2>1. /\ Layer(CoreServices, sid) \in CoreServices
        /\ Claims(Layer(CoreServices, sid), sid)
    BY <1>3, <1>6
  <2>2. Layer(CoreServices, sid) = x
    BY <2>1, <1>6 DEF LayerValid, Claims
  <2> QED BY <2>2, <1>1, <1>2, <1>6
<1>7. r = rebuildRoutes(S)
  BY DEF r
<1> QED BY <1>4, <1>5, <1>6, <1>7

LEMMA CoreOnlyServed ==
    ASSUME IopTypes, Configure, CoreOnly
    PROVE  RoutesServed' /\ IopTypes'
<1>1. IopTypes'
  BY IopAssumption DEF IopTypes, Configure
<1>2. RoutesServed'
  BY RebuiltServe DEF CoreOnly, RoutesServed, Claims, LayerValid, CoreServices, Instance
<1> QED BY <1>1, <1>2

LEMMA IopStep ==
    ASSUME RoutesServed, IopTypes, IopNext
    PROVE  RoutesServed' /\ IopTypes'
<1>1. CASE loadPlugins
  BY <1>1 DEF loadPlugins, RoutesServed, IopTypes
<1> SUFFICES ASSUME NEW i \in Identities,
                    \/ ConfigureUnmatched(i) \/ ConfigureAmbiguous(i) \/ FactoryThrows(i)
                    \/ Activate(i) \/ Clash(i)
             PROVE  RoutesServed' /\ IopTypes'
  BY <1>1 DEF IopNext
<1>2. CASE ConfigureUnmatched(i) \/ ConfigureAmbiguous(i) \/ FactoryThrows(i) \/ Clash(i)
  BY <1>2, CoreOnlyServed
     DEF ConfigureUnmatched, ConfigureAmbiguous, FactoryThrows, Clash
<1>3. CASE Activate(i)
  <2>1. PICK p \in Best(i) :
        /\ LayerValid(CoreServices) /\ LayerValid(Made(p, made'))
        /\ profileServices' = Made(p, made') /\ activeProfile' = p
        /\ routes' = rebuildRoutes(Made(p, made'))
    BY <1>3 DEF Activate
  <2>2. p \in Profiles /\ p # None
    BY <2>1, IopAssumption DEF Best, IopTypes
  <2>3. IopTypes'
    BY <1>3, IopAssumption DEF Activate, IopTypes, Configure
  <2>4. \A x \in Made(p, made') : Existing(x)
    BY <2>2, <2>3, MadeExists DEF IopTypes
  <2>5. outcome' = "ok"
    BY <1>3 DEF Activate
  <2>6. LET r == rebuildRoutes(Made(p, made')) IN
           /\ \A sid \in Sids : r[sid] # None =>
                r[sid] \in CoreServices \cup Made(p, made') /\ Claims(r[sid], sid)
           /\ \A x \in Made(p, made'), sid \in Sids : Claims(x, sid) => r[sid] = x
           /\ LayerValid(CoreServices) => \A x \in CoreServices, sid \in Sids :
                Claims(x, sid) => r[sid] \in Made(p, made') \cup {x}
    BY <2>1, <2>4, RebuiltServe
  <2>7. RoutesServed'
    BY <2>1, <2>2, <2>5, <2>6 DEF RoutesServed, Claims, LayerValid, CoreServices, Instance
  <2> QED BY <2>3, <2>7
<1> QED BY <1>2, <1>3

LEMMA IopStarts ==
    ASSUME IopInit
    PROVE  RoutesServed /\ IopTypes
<1>1. IopTypes
  BY IopAssumption DEF IopInit, IopTypes
<1>2. RoutesServed
  BY RebuiltServe DEF IopInit, RoutesServed
<1> QED BY <1>1, <1>2

\* The calls of SifRpc leave the registry alone.
LEMMA RpcKeepsIop == ASSUME Tables \/ Calling PROVE UNCHANGED iopVars
BY DEF Tables, Calling, SifInitRpc, SifBindRpc, SifRegisterRpc, SifRemoveRpc, SifSetRpcQueue,
       SifRemoveRpcQueue, SifCallRpc, ServerReturns, CallbackReturns, ThreadEnds, Ready

\* RoutesServed for every catalog of services, profiles and matchers: however a
\* configuration ends, every route leads to a live service that claims its sid, with the
\* profile before the core.
THEOREM RoutesServedHolds == Spec => []RoutesServed
<1>1. Init => RoutesServed /\ IopTypes
  BY IopStarts DEF Init
<1>2. RoutesServed /\ IopTypes /\ [Next]_vars => (RoutesServed /\ IopTypes)'
  <2> SUFFICES ASSUME RoutesServed, IopTypes, [Next]_vars
               PROVE  (RoutesServed /\ IopTypes)'
    OBVIOUS
  <2>1. CASE IopNext
    BY <2>1, IopStep
  <2>2. CASE UNCHANGED iopVars
    BY <2>2 DEF iopVars, RoutesServed, IopTypes, Claims, LayerValid, CoreServices
  <2> QED BY <2>1, <2>2, RpcKeepsIop DEF Next, vars
<1> QED BY <1>1, <1>2, PTL DEF Spec

--------------------------------------------------------------------------------
(* Tables *)

Address == Records \cup Nat \cup {NULL}
ClientRecord == [sid : Sids, busy : BOOLEAN]

TableTypes ==
    /\ servers \in [Sids -> Address]
    /\ nextSlot \in Nat
    /\ clients \in [Clients -> ClientRecord \cup {None}]
    /\ server \in [Clients -> Address]

LEMMA NoneIsNoRecord == None \notin ClientRecord
BY RpcAssumption DEF ClientRecord

LEMMA BindStep ==
    ASSUME TableTypes, ClientsFollowServers,
           NEW c \in Clients, NEW sid \in Sids, SifBindRpc(c, sid)
    PROVE  TableTypes' /\ ClientsFollowServers'
<1>1. /\ clients' = [clients EXCEPT ![c] = [sid |-> sid, busy |-> FALSE]]
      /\ [sid |-> sid, busy |-> FALSE] \in ClientRecord
  BY DEF SifBindRpc, ClientRecord
<1>2. clients'[c].sid = sid
  BY <1>1 DEF TableTypes
<1>3. \A d \in Clients \ {c} : clients'[d] = clients[d]
  BY <1>1 DEF TableTypes
<1>4. CASE servers[sid] # NULL
  <2>1. servers' = servers /\ nextSlot' = nextSlot
        /\ server' = [server EXCEPT ![c] = servers[sid]]
    BY <1>4 DEF SifBindRpc
  <2>2. TableTypes'
    BY <1>1, <2>1 DEF TableTypes
  <2>3. ClientsFollowServers'
    BY <1>2, <1>3, <1>4, <2>1 DEF TableTypes, ClientsFollowServers, Bound
  <2> QED BY <2>2, <2>3
<1>5. CASE servers[sid] = NULL
  <2> DEFINE slot == nextSlot % PoolSlots
  <2>1. slot \in Nat /\ slot # NULL
    BY RpcAssumption DEF TableTypes
  <2>2. /\ server' = [server EXCEPT ![c] = slot]
        /\ servers' = [servers EXCEPT ![sid] = slot]
        /\ nextSlot' = nextSlot + 1
    BY <1>5 DEF SifBindRpc
  <2> HIDE DEF slot
  <2>3. TableTypes'
    BY <1>1, <2>1, <2>2 DEF TableTypes, Address
  <2>4. ASSUME NEW d \in Clients \ {c}, Bound(d)
        PROVE  clients[d].sid \in Sids /\ clients[d].sid # sid
    BY <2>4, <1>5 DEF ClientsFollowServers, TableTypes, Bound, ClientRecord
  <2>5. ClientsFollowServers'
    BY <1>2, <1>3, <2>1, <2>2, <2>4 DEF TableTypes, ClientsFollowServers, Bound
  <2> QED BY <2>3, <2>5
<1> QED BY <1>4, <1>5

LEMMA RegisterStep ==
    ASSUME TableTypes, ClientsFollowServers,
           NEW sd \in Records, NEW sid \in Sids, SifRegisterRpc(sd, sid)
    PROVE  TableTypes' /\ ClientsFollowServers'
<1>1. /\ servers' = [servers EXCEPT ![sid] = sd]
      /\ server' = Remapped(sid, sd)
      /\ UNCHANGED <<nextSlot, clients>>
  BY DEF SifRegisterRpc
<1>2. sd # NULL /\ sd \in Address
  BY RpcAssumption DEF Address
<1>3. TableTypes'
  BY <1>1, <1>2 DEF TableTypes, Remapped
<1>4. ASSUME NEW c \in Clients, Bound(c)
      PROVE  clients[c].sid \in Sids
  BY <1>4 DEF TableTypes, Bound, ClientRecord
<1>5. ClientsFollowServers'
  BY <1>1, <1>2, <1>4 DEF TableTypes, ClientsFollowServers, Bound, Remapped
<1> QED BY <1>3, <1>5

\* What setting or clearing the busy flag of a bound client does to the table.
ClientTable == [Clients -> ClientRecord \cup {None}]

LEMMA BusyOnly ==
    ASSUME NEW table \in ClientTable, NEW c \in Clients, table[c] # None,
           NEW b \in BOOLEAN
    PROVE  LET t == [table EXCEPT ![c].busy = b] IN
           /\ t \in ClientTable
           /\ \A d \in Clients : (t[d] # None) = (table[d] # None)
           /\ \A d \in Clients : table[d] # None => t[d].sid = table[d].sid
           /\ \A d \in Clients \ {c} : t[d] = table[d]
           /\ t[c].busy = b
<1> DEFINE t == [table EXCEPT ![c].busy = b]
<1>1. table[c] \in ClientRecord
  BY DEF ClientTable
<1>2. t = [table EXCEPT ![c] = [table[c] EXCEPT !.busy = b]]
  OBVIOUS
<1>3. /\ [table[c] EXCEPT !.busy = b] \in ClientRecord
      /\ [table[c] EXCEPT !.busy = b].sid = table[c].sid
      /\ [table[c] EXCEPT !.busy = b].busy = b
  BY <1>1 DEF ClientRecord
<1> HIDE DEF ClientRecord
<1> DEFINE r == [table[c] EXCEPT !.busy = b]
<1>4. r \in ClientRecord /\ r.sid = table[c].sid /\ r.busy = b /\ t = [table EXCEPT ![c] = r]
  BY <1>2, <1>3
<1> HIDE DEF r, t
<1>5. /\ t \in ClientTable
      /\ \A d \in Clients : (t[d] # None) = (table[d] # None)
      /\ \A d \in Clients : table[d] # None => t[d].sid = table[d].sid
      /\ \A d \in Clients \ {c} : t[d] = table[d]
      /\ t[c].busy = b
  BY <1>1, <1>4, NoneIsNoRecord DEF ClientTable
<1> QED BY <1>5 DEF t

\* The table after a call began and before it is done, or after it is done.
LEMMA FinishTable ==
    ASSUME NEW table \in ClientTable, NEW c \in Clients, table[c] # None, table[c].busy = TRUE,
           NEW t, NEW calls, NEW back \in BOOLEAN, Finish(t, calls, table, c, back)
    PROVE  /\ clients' \in ClientTable
           /\ \A d \in Clients : (clients'[d] # None) = (table[d] # None)
           /\ \A d \in Clients : table[d] # None => clients'[d].sid = table[d].sid
           /\ \A d \in Clients \ {c} : clients'[d] = table[d]
           /\ clients'[c].busy = back
<1>1. CASE back
  <2>1. clients' = table
    BY <1>1 DEF Finish
  <2> QED BY <1>1, <2>1
<1>2. CASE ~back
  <2> DEFINE freed == [table EXCEPT ![c].busy = FALSE]
  <2>1. clients' = freed
    BY <1>2 DEF Finish, Freed
  <2>2. /\ freed \in ClientTable
        /\ \A d \in Clients : (freed[d] # None) = (table[d] # None)
        /\ \A d \in Clients : table[d] # None => freed[d].sid = table[d].sid
        /\ \A d \in Clients \ {c} : freed[d] = table[d]
        /\ freed[c].busy = FALSE
    BY BusyOnly
  <2> HIDE DEF freed
  <2> QED BY <1>2, <2>1, <2>2
<1> QED BY <1>1, <1>2

--------------------------------------------------------------------------------
(* Calls *)

CallRecord == [client : Clients, phase : {"server", "callback"}, back : BOOLEAN]
StackTypes == stack \in [Threads -> Seq(CallRecord)]

\* OneCallPerClient, place by place.
Places(t) == 1 .. Len(stack[t])
CallsBusy == \A t \in Threads : \A m \in Places(t) : Busy(stack[t][m].client)
CallsApart ==
    \A t, u \in Threads : \A m \in Places(t), n \in Places(u) :
        stack[t][m].client = stack[u][n].client => t = u /\ m = n

LEMMA Placed == OneCallPerClient <=> CallsBusy /\ CallsApart
BY DEF OneCallPerClient, Calls, CallsBusy, CallsApart, Places

LEMMA InStack ==
    ASSUME StackTypes, NEW t \in Threads, NEW m \in Places(t)
    PROVE  stack[t][m] \in CallRecord /\ stack[t][m].client \in Clients
<1>1. stack[t] \in Seq(CallRecord)
  BY DEF StackTypes
<1>2. stack[t][m] \in CallRecord
  BY <1>1 DEF Places
<1> QED BY <1>2 DEF CallRecord

\* A client that becomes busy for a new call had no other.
LEMMA CallBegins ==
    ASSUME StackTypes, OneCallPerClient, NEW t \in Threads, NEW k \in CallRecord,
           ~Busy(k.client), Busy(k.client)',
           \A d \in Clients \ {k.client} : clients'[d] = clients[d],
           stack' = [stack EXCEPT ![t] = Append(@, k)]
    PROVE  StackTypes' /\ OneCallPerClient'
<1>1. /\ StackTypes'
      /\ Len(stack'[t]) = Len(stack[t]) + 1
      /\ stack'[t][Len(stack[t]) + 1] = k
      /\ \A m \in Places(t) : stack'[t][m] = stack[t][m]
      /\ \A u \in Threads \ {t} : stack'[u] = stack[u]
  BY DEF StackTypes, Places
<1>2. \A u \in Threads : \A m \in Places(u) :
        /\ stack[u][m].client \in Clients
        /\ stack[u][m].client # k.client
        /\ Busy(stack[u][m].client)
  BY Placed, InStack DEF CallsBusy
<1>3. CallsApart
  BY Placed
<1>4. \A u \in Threads : Len(stack[u]) \in Nat
  BY DEF StackTypes
<1>5. ASSUME NEW u \in Threads, NEW m \in Places(u)'
      PROVE  \/ m \in Places(u) /\ stack'[u][m] = stack[u][m]
             \/ u = t /\ m = Len(stack[t]) + 1 /\ stack'[u][m] = k
  BY <1>1, <1>4 DEF Places
<1>6. ASSUME NEW u \in Threads, NEW m \in Places(u)'
      PROVE  Busy(stack[u][m].client)'
  <2>1. CASE m \in Places(u) /\ stack'[u][m] = stack[u][m]
    <3>1. clients'[stack[u][m].client] = clients[stack[u][m].client]
      BY <1>2, <2>1
    <3> QED BY <1>2, <2>1, <3>1 DEF Busy, Bound
  <2>2. CASE stack'[u][m] = k
    BY <2>2 DEF Busy, Bound
  <2> QED BY <1>5, <2>1, <2>2
<1>7. ASSUME NEW u \in Threads, NEW v \in Threads, NEW m \in Places(u)', NEW n \in Places(v)',
             stack'[u][m].client = stack'[v][n].client
      PROVE  u = v /\ m = n
  <2>1. CASE m \in Places(u) /\ stack'[u][m] = stack[u][m]
    <3>3. stack'[u][m].client # k.client
      BY <1>2, <2>1
    <3>4. stack'[v][n] # k
      BY <1>7, <3>3
    <3>1. n \in Places(v) /\ stack'[v][n] = stack[v][n]
      BY <1>5, <3>4
    <3>2. stack[u][m].client = stack[v][n].client
      BY <1>7, <2>1, <3>1
    <3> QED BY <1>3, <2>1, <3>1, <3>2 DEF CallsApart
  <2>2. CASE u = t /\ m = Len(stack[t]) + 1 /\ stack'[u][m] = k
    <3>2. stack'[v][n].client = k.client
      BY <1>7, <2>2
    <3>3. ~(n \in Places(v) /\ stack'[v][n] = stack[v][n])
      BY <1>2, <3>2
    <3>1. v = t /\ n = Len(stack[t]) + 1
      BY <1>5, <3>3
    <3> QED BY <2>2, <3>1
  <2> QED BY <1>5, <2>1, <2>2
<1>8. OneCallPerClient'
  BY <1>6, <1>7 DEF OneCallPerClient, Calls, CallsBusy, CallsApart, Places
<1> QED BY <1>1, <1>8

\* The innermost call of t is replaced by its callback.
LEMMA CallGoesOn ==
    ASSUME StackTypes, OneCallPerClient, NEW t \in Threads, stack[t] # <<>>,
           UNCHANGED clients,
           stack' = [stack EXCEPT ![t] = Append(Below(t), InCallback(Top(t).client))]
    PROVE  StackTypes' /\ OneCallPerClient'
<1> DEFINE k == InCallback(Top(t).client)
<1>1. stack[t] \in Seq(CallRecord) /\ Len(stack[t]) \in Nat \ {0}
  BY DEF StackTypes
<1>2. Top(t) \in CallRecord
  BY <1>1 DEF Top
<1>3. k \in CallRecord /\ k.client = Top(t).client
  BY <1>2 DEF CallRecord, InCallback
<1> HIDE DEF k
<1>4. /\ Below(t) \in Seq(CallRecord)
      /\ Len(Below(t)) = Len(stack[t]) - 1
      /\ \A m \in 1 .. Len(stack[t]) - 1 : Below(t)[m] = stack[t][m]
  BY <1>1 DEF Below
<1>5. stack' = [stack EXCEPT ![t] = Append(Below(t), k)]
  BY DEF k
<1> DEFINE s == Append(Below(t), k)
<1>10. /\ s \in Seq(CallRecord) /\ Len(s) = Len(stack[t])
       /\ s[Len(stack[t])] = k
       /\ \A m \in 1 .. Len(stack[t]) - 1 : s[m] = stack[t][m]
  <2>1. s \in Seq(CallRecord) /\ Len(s) = Len(Below(t)) + 1
    BY <1>3, <1>4
  <2>2. s[Len(Below(t)) + 1] = k
    BY <1>3, <1>4
  <2>3. \A m \in 1 .. Len(Below(t)) : s[m] = Below(t)[m]
    BY <1>3, <1>4
  <2> HIDE DEF s
  <2> QED BY <1>1, <1>4, <2>1, <2>2, <2>3
<1>11. stack' = [stack EXCEPT ![t] = s]
  BY <1>5
<1> HIDE DEF s
<1>12. \A m \in Places(t) : s[m].client = stack[t][m].client
  <2> SUFFICES ASSUME NEW m \in Places(t) PROVE s[m].client = stack[t][m].client
    OBVIOUS
  <2>1. CASE m = Len(stack[t])
    BY <2>1, <1>3, <1>10 DEF Top
  <2>2. CASE m # Len(stack[t])
    BY <2>2, <1>1, <1>10 DEF Places
  <2> QED BY <2>1, <2>2
<1>13. stack'[t] = s /\ \A u \in Threads \ {t} : stack'[u] = stack[u]
  BY <1>11 DEF StackTypes
<1>6. /\ StackTypes'
      /\ Len(stack'[t]) = Len(stack[t])
      /\ \A m \in Places(t) : stack'[t][m].client = stack[t][m].client
      /\ \A u \in Threads \ {t} : stack'[u] = stack[u]
  BY <1>10, <1>11, <1>12, <1>13 DEF StackTypes
<1>7. \A u \in Threads : /\ Places(u)' = Places(u)
                         /\ \A m \in Places(u) : stack'[u][m].client = stack[u][m].client
  BY <1>6 DEF Places
<1>14. CallsBusy /\ CallsApart
  BY Placed
<1>15. CallsBusy'
  BY <1>7, <1>14 DEF CallsBusy, Busy, Bound
<1>16. CallsApart'
  <2> SUFFICES ASSUME NEW u \in Threads, NEW v \in Threads,
                      NEW m \in Places(u)', NEW n \in Places(v)',
                      stack'[u][m].client = stack'[v][n].client
               PROVE  u = v /\ m = n
    BY DEF CallsApart
  <2>1. m \in Places(u) /\ n \in Places(v) /\ stack[u][m].client = stack[v][n].client
    BY <1>7
  <2> QED BY <1>14, <2>1 DEF CallsApart
<1>9. OneCallPerClient'
  BY <1>15, <1>16 DEF OneCallPerClient, Calls, CallsBusy, CallsApart, Places
<1> QED BY <1>6, <1>9

\* The innermost call of t is done.
LEMMA CallEnds ==
    ASSUME StackTypes, OneCallPerClient, NEW t \in Threads, stack[t] # <<>>,
           \A d \in Clients \ {Top(t).client} : clients'[d] = clients[d],
           stack' = [stack EXCEPT ![t] = Below(t)]
    PROVE  StackTypes' /\ OneCallPerClient'
<1>1. stack[t] \in Seq(CallRecord) /\ Len(stack[t]) \in Nat \ {0}
  BY DEF StackTypes
<1>2. /\ Below(t) \in Seq(CallRecord)
      /\ Len(Below(t)) = Len(stack[t]) - 1
      /\ \A m \in 1 .. Len(stack[t]) - 1 : Below(t)[m] = stack[t][m]
  BY <1>1 DEF Below
<1>3. StackTypes'
  BY <1>2 DEF StackTypes
<1>4. ASSUME NEW u \in Threads, NEW m \in Places(u)'
      PROVE  /\ m \in Places(u)
             /\ stack'[u][m] = stack[u][m]
             /\ ~(u = t /\ m = Len(stack[t]))
  BY <1>1, <1>2 DEF Places, StackTypes
<1>5. \A u \in Threads : \A m \in Places(u) : stack[u][m].client \in Clients
  BY InStack
<1>6. CallsBusy /\ CallsApart
  BY Placed
<1>7. ASSUME NEW u \in Threads, NEW m \in Places(u)'
      PROVE  stack[u][m].client # Top(t).client
  BY <1>1, <1>4, <1>6, <1>7 DEF CallsApart, Top, Places
<1>8. CallsBusy'
  BY <1>4, <1>5, <1>6, <1>7 DEF CallsBusy, Busy, Bound
<1>9. CallsApart'
  BY <1>4, <1>6 DEF CallsApart
<1>10. OneCallPerClient'
  BY <1>8, <1>9 DEF OneCallPerClient, Calls, CallsBusy, CallsApart, Places
<1> QED BY <1>3, <1>10

--------------------------------------------------------------------------------
(* The invariant and its steps *)

RpcInv == TableTypes /\ StackTypes /\ ClientsFollowServers /\ OneCallPerClient

\* The tables after a step that changes the busy flag of one client at most.
LEMMA TablesKept ==
    ASSUME TableTypes, ClientsFollowServers, UNCHANGED <<servers, nextSlot>>,
           clients' \in ClientTable, server' \in [Clients -> Address],
           \A d \in Clients : (clients'[d] # None) = (clients[d] # None),
           \A d \in Clients : clients[d] # None => clients'[d].sid = clients[d].sid,
           \A d \in Clients : clients[d] # None => server'[d] = servers[clients[d].sid]
    PROVE  TableTypes' /\ ClientsFollowServers'
BY DEF TableTypes, ClientTable, ClientsFollowServers, Bound

LEMMA CallStep ==
    ASSUME RpcInv, NEW t \in Threads, NEW c \in Clients, NEW end \in BOOLEAN,
           SifCallRpc(t, c, end)
    PROVE  RpcInv'
<1> DEFINE busy == [clients EXCEPT ![c].busy = TRUE]
           sid == clients[c].sid
           sd == IF servers[sid] # NULL THEN servers[sid] ELSE server[c]
<1>1. Bound(c) /\ ~Busy(c) /\ clients[c] # None /\ clients \in ClientTable
  BY DEF SifCallRpc, RpcInv, TableTypes, ClientTable, Bound
<1>2. /\ busy \in ClientTable
      /\ \A d \in Clients : (busy[d] # None) = (clients[d] # None)
      /\ \A d \in Clients : clients[d] # None => busy[d].sid = clients[d].sid
      /\ \A d \in Clients \ {c} : busy[d] = clients[d]
      /\ busy[c].busy = TRUE
  BY <1>1, BusyOnly
<1>3. server' = [server EXCEPT ![c] = sd] /\ UNCHANGED <<servers, nextSlot>>
  BY DEF SifCallRpc
<1>4. sd = servers[sid]
  BY <1>1 DEF RpcInv, ClientsFollowServers
<1>5. server' = server
  BY <1>1, <1>3, <1>4 DEF RpcInv, ClientsFollowServers, TableTypes
<1>6. PICK back \in BOOLEAN :
        \/ /\ stack' = [stack EXCEPT ![t] =
                    Append(@, [client |-> c, phase |-> "server", back |-> back])]
           /\ clients' = busy
        \/ Finish(t, stack[t], busy, c, back)
  <2>1. PICK a \in AnswersTo(sid) :
        LET back == end /\ ~a.suppressCallback IN
        \/ /\ a.dispatch \/ (sd \in Runs /\ ~a.suppressServer)
           /\ stack' = [stack EXCEPT ![t] =
                    Append(@, [client |-> c, phase |-> "server", back |-> back])]
           /\ clients' = busy
        \/ /\ ~a.dispatch /\ (sd \notin Runs \/ a.suppressServer)
           /\ Finish(t, stack[t], busy, c, back)
    BY DEF SifCallRpc
  <2> QED BY <2>1
<1> HIDE DEF busy, sd
<1>7. CASE /\ stack' = [stack EXCEPT ![t] =
                    Append(@, [client |-> c, phase |-> "server", back |-> back])]
           /\ clients' = busy
  <2> DEFINE k == [client |-> c, phase |-> "server", back |-> back]
  <2>1. k \in CallRecord /\ k.client = c
    BY DEF CallRecord
  <2>2. stack' = [stack EXCEPT ![t] = Append(@, k)]
    BY <1>7
  <2> HIDE DEF k
  <2>3. Busy(c)'
    BY <1>1, <1>2, <1>7 DEF Busy, Bound
  <2>4. StackTypes' /\ OneCallPerClient'
    BY <1>1, <1>2, <1>7, <2>1, <2>2, <2>3, CallBegins DEF RpcInv
  <2>5. TableTypes' /\ ClientsFollowServers'
    BY <1>2, <1>3, <1>5, <1>7, TablesKept DEF RpcInv, TableTypes, ClientsFollowServers, Bound
  <2> QED BY <2>4, <2>5 DEF RpcInv
<1>8. CASE Finish(t, stack[t], busy, c, back)
  <2>1. /\ clients' \in ClientTable
        /\ \A d \in Clients : (clients'[d] # None) = (busy[d] # None)
        /\ \A d \in Clients : busy[d] # None => clients'[d].sid = busy[d].sid
        /\ \A d \in Clients \ {c} : clients'[d] = busy[d]
        /\ clients'[c].busy = back
    BY <1>1, <1>2, <1>8, FinishTable
  <2>2. TableTypes' /\ ClientsFollowServers'
    BY <1>2, <1>3, <1>5, <2>1, TablesKept DEF RpcInv, TableTypes, ClientsFollowServers, Bound
  <2>3. CASE back
    <3> DEFINE k == InCallback(c)
    <3>1. k \in CallRecord /\ k.client = c
      BY DEF CallRecord, InCallback
    <3>2. stack' = [stack EXCEPT ![t] = Append(@, k)]
      BY <1>8, <2>3 DEF Finish
    <3> HIDE DEF k
    <3>3. Busy(k.client)' /\ ~Busy(k.client)
      BY <1>1, <1>2, <2>1, <2>3, <3>1 DEF Busy, Bound
    <3>5. \A d \in Clients \ {k.client} : clients'[d] = clients[d]
      BY <1>2, <2>1, <3>1
    <3>4. StackTypes' /\ OneCallPerClient'
      BY <3>1, <3>2, <3>3, <3>5, CallBegins DEF RpcInv
    <3> QED BY <2>2, <3>4 DEF RpcInv
  <2>4. CASE ~back
    <3>1. stack' = stack
      BY <1>8, <2>4 DEF Finish, RpcInv, StackTypes
    <3>2. \A u \in Threads : \A m \in Places(u) :
            stack[u][m].client \in Clients /\ stack[u][m].client # c
      BY <1>1, Placed, InStack DEF RpcInv, CallsBusy
    <3>3. CallsBusy /\ CallsApart
      BY Placed DEF RpcInv
    <3>4. CallsBusy'
      BY <1>2, <2>1, <3>1, <3>2, <3>3 DEF CallsBusy, Places, Busy, Bound
    <3>5. CallsApart'
      BY <3>1, <3>3 DEF CallsApart, Places
    <3>6. OneCallPerClient'
      BY <3>4, <3>5 DEF OneCallPerClient, Calls, CallsBusy, CallsApart, Places
    <3> QED BY <2>2, <3>1, <3>6 DEF RpcInv, StackTypes
  <2> QED BY <2>3, <2>4
<1> QED BY <1>6, <1>7, <1>8

LEMMA TopCall ==
    ASSUME RpcInv, NEW t \in Threads, stack[t] # <<>>
    PROVE  /\ Top(t) \in CallRecord
           /\ Top(t).client \in Clients /\ Top(t).back \in BOOLEAN
           /\ clients[Top(t).client] # None /\ clients[Top(t).client].busy = TRUE
           /\ clients \in ClientTable
<1>1. stack[t] \in Seq(CallRecord)
  BY DEF RpcInv, StackTypes
<1>2. Len(stack[t]) \in Places(t)
  BY <1>1 DEF Places
<1>3. Top(t) \in CallRecord
  BY <1>1, <1>2 DEF Top, Places
<1>4. Busy(Top(t).client)
  BY <1>2, Placed DEF RpcInv, CallsBusy, Top
<1>5. clients \in ClientTable
  BY DEF RpcInv, TableTypes, ClientTable
<1>6. Top(t).client \in Clients /\ Top(t).back \in BOOLEAN
  BY <1>3 DEF CallRecord
<1>7. clients[Top(t).client].busy = TRUE
  BY <1>4, <1>5, <1>6 DEF Busy, Bound, ClientTable, ClientRecord
<1> QED BY <1>3, <1>4, <1>5, <1>6, <1>7 DEF Busy, Bound

\* A server function or an end function returns.
LEMMA ReturnStep ==
    ASSUME RpcInv, NEW t \in Threads, stack[t] # <<>>, NEW back \in BOOLEAN,
           Finish(t, Below(t), clients, Top(t).client, back),
           UNCHANGED <<servers, nextSlot, server>>
    PROVE  RpcInv'
<1> DEFINE c == Top(t).client
<1>1. /\ c \in Clients /\ clients[c] # None /\ clients[c].busy = TRUE
      /\ clients \in ClientTable
  BY TopCall
<1>6. clients' = IF back THEN clients ELSE Freed(clients, c)
  BY DEF Finish
<1>2. /\ clients' \in ClientTable
      /\ \A d \in Clients : (clients'[d] # None) = (clients[d] # None)
      /\ \A d \in Clients : clients[d] # None => clients'[d].sid = clients[d].sid
      /\ \A d \in Clients \ {c} : clients'[d] = clients[d]
  <2> HIDE DEF c
  <2>1. CASE back
    BY <1>1, <1>6, <2>1
  <2>2. CASE ~back
    BY <1>1, <1>6, <2>2, RpcAssumption DEF Freed, ClientTable, ClientRecord
  <2> QED BY <2>1, <2>2
<1>3. TableTypes' /\ ClientsFollowServers'
  BY <1>2, TablesKept DEF RpcInv, TableTypes, ClientsFollowServers, Bound
<1>4. CASE back
  <2>1. UNCHANGED clients /\ stack' = [stack EXCEPT ![t] = Append(Below(t), InCallback(c))]
    BY <1>4 DEF Finish
  <2> QED BY <1>3, <2>1, CallGoesOn DEF RpcInv
<1>5. CASE ~back
  <2>1. stack' = [stack EXCEPT ![t] = Below(t)]
    BY <1>5 DEF Finish
  <2> QED BY <1>2, <1>3, <2>1, CallEnds DEF RpcInv
<1> QED BY <1>4, <1>5

\* The calls of a thread that ends are gone.
LEMMA EndStep ==
    ASSUME RpcInv, NEW t \in Threads, ThreadEnds(t)
    PROVE  RpcInv'
<1>1. stack' = [stack EXCEPT ![t] = <<>>] /\ UNCHANGED <<servers, nextSlot, clients, server>>
  BY DEF ThreadEnds, tableVars
<1>2. TableTypes' /\ ClientsFollowServers'
  BY <1>1 DEF RpcInv, TableTypes, ClientsFollowServers, Bound
<1>3. StackTypes' /\ stack'[t] = <<>> /\ \A u \in Threads \ {t} : stack'[u] = stack[u]
  BY <1>1 DEF RpcInv, StackTypes
<1>4. ASSUME NEW u \in Threads, NEW m \in Places(u)'
      PROVE  m \in Places(u) /\ stack'[u][m] = stack[u][m]
  BY <1>3 DEF Places
<1>5. CallsBusy /\ CallsApart
  BY Placed DEF RpcInv
<1>6. CallsBusy'
  BY <1>1, <1>4, <1>5 DEF CallsBusy, Busy, Bound
<1>7. CallsApart'
  BY <1>4, <1>5 DEF CallsApart
<1>8. OneCallPerClient'
  BY <1>6, <1>7 DEF OneCallPerClient, Calls, CallsBusy, CallsApart, Places
<1> QED BY <1>2, <1>3, <1>8 DEF RpcInv

\* Steps that leave the calls and the busy flags alone.
LEMMA CallsKept ==
    ASSUME RpcInv, UNCHANGED stack,
           \A c \in Clients : Busy(c) => clients'[c] = clients[c]
    PROVE  StackTypes' /\ OneCallPerClient'
<1>1. CallsBusy /\ CallsApart
  BY Placed DEF RpcInv
<1>2. \A u \in Threads : \A m \in Places(u) :
        stack[u][m].client \in Clients /\ Busy(stack[u][m].client)
  BY <1>1, InStack DEF RpcInv, CallsBusy
<1>3. CallsBusy'
  BY <1>2 DEF CallsBusy, Places, Busy, Bound
<1>4. CallsApart'
  BY <1>1 DEF CallsApart, Places
<1>5. OneCallPerClient'
  BY <1>3, <1>4 DEF OneCallPerClient, Calls, CallsBusy, CallsApart, Places
<1> QED BY <1>5 DEF RpcInv, StackTypes

\* Before SifInitRpc there are no clients and no calls.
Fresh == ~initialized => /\ \A t \in Threads : stack[t] = <<>>
                         /\ \A c \in Clients : clients[c] = None

LEMMA RpcStep ==
    ASSUME RpcInv, Fresh, initialized \in BOOLEAN, Next
    PROVE  (RpcInv /\ Fresh /\ initialized \in BOOLEAN)'
<1>1. CASE IopNext /\ UNCHANGED rpcVars
  BY <1>1 DEF rpcVars, tableVars, RpcInv, Fresh, TableTypes, StackTypes, ClientsFollowServers,
              OneCallPerClient, Calls, Bound, Busy
<1>2. CASE SifInitRpc
  <2>1. initialized' = TRUE /\ UNCHANGED stack
    BY <1>2 DEF SifInitRpc
  <2>2. CASE initialized
    <3>1. UNCHANGED <<servers, nextSlot, clients, server>>
      BY <1>2, <2>2 DEF SifInitRpc, tableVars
    <3>2. TableTypes' /\ ClientsFollowServers'
      BY <3>1 DEF RpcInv, TableTypes, ClientsFollowServers, Bound
    <3> QED BY <2>1, <3>1, <3>2, CallsKept DEF RpcInv, Fresh
  <2>3. CASE ~initialized
    <3>1. /\ servers' = [sid \in Sids |-> NULL] /\ clients' = [c \in Clients |-> None]
          /\ nextSlot' = 0 /\ UNCHANGED server
      BY <1>2, <2>3 DEF SifInitRpc
    <3>2. TableTypes' /\ ClientsFollowServers'
      BY <3>1 DEF RpcInv, TableTypes, ClientsFollowServers, Bound, Address
    <3>3. \A c \in Clients : clients'[c] = clients[c]
      BY <2>3, <3>1 DEF Fresh
    <3> QED BY <2>1, <3>2, <3>3, CallsKept DEF RpcInv, Fresh
  <2> QED BY <2>2, <2>3
<1>3. ASSUME NEW c \in Clients, NEW sid \in Sids, SifBindRpc(c, sid)
      PROVE  RpcInv' /\ initialized'
  <2>1. TableTypes' /\ ClientsFollowServers'
    BY <1>3, BindStep DEF RpcInv
  <2>2. UNCHANGED stack /\ initialized' /\ ~Busy(c) /\ \A d \in Clients \ {c} : clients'[d] = clients[d]
    BY <1>3 DEF SifBindRpc, Ready, RpcInv, TableTypes
  <2> QED BY <2>1, <2>2, CallsKept DEF RpcInv
<1>4. ASSUME NEW sd \in Records, NEW sid \in Sids, SifRegisterRpc(sd, sid)
      PROVE  RpcInv' /\ initialized'
  <2>1. TableTypes' /\ ClientsFollowServers'
    BY <1>4, RegisterStep DEF RpcInv
  <2>2. UNCHANGED <<stack, clients>> /\ initialized'
    BY <1>4 DEF SifRegisterRpc, Ready
  <2> QED BY <2>1, <2>2, CallsKept DEF RpcInv
<1>5. CASE \/ \E sd \in Records, q \in Queues : SifRemoveRpc(sd, q)
           \/ \E q \in Queues : SifSetRpcQueue(q) \/ SifRemoveRpcQueue(q)
  <2>1. UNCHANGED <<tableVars, stack>> /\ initialized'
    BY <1>5 DEF SifRemoveRpc, SifSetRpcQueue, SifRemoveRpcQueue, Ready
  <2>2. TableTypes' /\ ClientsFollowServers'
    BY <2>1 DEF tableVars, RpcInv, TableTypes, ClientsFollowServers, Bound
  <2>3. UNCHANGED <<stack, clients>>
    BY <2>1 DEF tableVars
  <2>4. StackTypes' /\ OneCallPerClient'
    BY <2>3, CallsKept
  <2> QED BY <2>1, <2>2, <2>4 DEF RpcInv, Fresh
<1>6. ASSUME NEW t \in Threads, NEW c \in Clients, NEW end \in BOOLEAN, SifCallRpc(t, c, end)
      PROVE  RpcInv' /\ initialized'
  BY <1>6, CallStep DEF SifCallRpc, Ready
<1>7. ASSUME NEW t \in Threads, ServerReturns(t) \/ CallbackReturns(t)
      PROVE  RpcInv' /\ initialized'
  <2>1. stack[t] # <<>> /\ initialized' /\ UNCHANGED <<servers, nextSlot, server>>
    BY <1>7 DEF ServerReturns, CallbackReturns, Ready
  <2>2. PICK back \in BOOLEAN : Finish(t, Below(t), clients, Top(t).client, back)
    BY <1>7, <2>1, TopCall DEF ServerReturns, CallbackReturns
  <2> QED BY <2>1, <2>2, ReturnStep
<1>8. ASSUME NEW t \in Threads, ThreadEnds(t)
      PROVE  RpcInv' /\ initialized'
  BY <1>8, EndStep DEF ThreadEnds, Ready
<1> QED BY <1>1, <1>2, <1>3, <1>4, <1>5, <1>6, <1>7, <1>8 DEF Next, Tables, Calling, Fresh

LEMMA RpcInvariant == Spec => []RpcInv
<1>1. Init => RpcInv /\ Fresh /\ initialized \in BOOLEAN
  <2> SUFFICES ASSUME Init PROVE RpcInv /\ Fresh /\ initialized \in BOOLEAN
    OBVIOUS
  <2>1. TableTypes /\ ClientsFollowServers
    BY DEF Init, TableTypes, ClientsFollowServers, Bound, Address
  <2>2. stack = [t \in Threads |-> <<>>]
    BY DEF Init
  <2>3. <<>> \in Seq(CallRecord)
    OBVIOUS
  <2>4. StackTypes
    BY <2>2, <2>3 DEF StackTypes
  <2>5. \A t \in Threads : 1 .. Len(stack[t]) = {}
    BY <2>2
  <2>6. OneCallPerClient
    BY <2>5 DEF OneCallPerClient, Calls
  <2>7. Fresh /\ initialized \in BOOLEAN
    BY DEF Init, Fresh
  <2> QED BY <2>1, <2>4, <2>6, <2>7 DEF RpcInv
<1>2. RpcInv /\ Fresh /\ initialized \in BOOLEAN /\ [Next]_vars
        => (RpcInv /\ Fresh /\ initialized \in BOOLEAN)'
  <2> SUFFICES ASSUME RpcInv, Fresh, initialized \in BOOLEAN, [Next]_vars
               PROVE  (RpcInv /\ Fresh /\ initialized \in BOOLEAN)'
    OBVIOUS
  <2>1. CASE Next
    BY <2>1, RpcStep
  <2>2. CASE UNCHANGED vars
    BY <2>2 DEF vars, rpcVars, tableVars, RpcInv, Fresh, TableTypes, StackTypes,
                ClientsFollowServers, OneCallPerClient, Calls, Bound, Busy
  <2> QED BY <2>1, <2>2
<1> QED BY <1>1, <1>2, PTL DEF Spec

\* ClientsFollowServers for any number of clients, servers and sids: whichever order
\* binds, registrations and calls come in, a bound client has the server of its sid.
THEOREM ClientsFollowServersHolds == Spec => []ClientsFollowServers
<1>1. RpcInv => ClientsFollowServers
  BY DEF RpcInv
<1> QED BY <1>1, RpcInvariant, PTL

\* OneCallPerClient for any number of threads and any nesting: a game that polls
\* SifCheckStatRpc never has two calls of one client under way, and every call under
\* way keeps its client busy.
THEOREM OneCallPerClientHolds == Spec => []OneCallPerClient
<1>1. RpcInv => OneCallPerClient
  BY DEF RpcInv
<1> QED BY <1>1, RpcInvariant, PTL

--------------------------------------------------------------------------------
(* Chains in guest memory *)

\* Where a link leads from x; NULL leads nowhere.
Step(step, x) == IF x = NULL THEN NULL ELSE step[x]

\* A walk starts at its head and goes from each element to the one its step names.
LEMMA WalkSteps ==
    ASSUME NEW head, NEW step
    PROVE  /\ Walk(head, step)[0] = head
           /\ \A n \in Nat : Walk(head, step)[n + 1] = Step(step, Walk(head, step)[n])
<1> DEFINE Go(x) == Step(step, x)
           Good(f, n) == f[0] = head /\ \A k \in 1 .. n : f[k] = Go(f[k - 1])
           Is(h) == h = [n \in Nat |-> IF n = 0 THEN head ELSE IF h[n - 1] = NULL THEN NULL ELSE step[h[n - 1]]]
           F(n) == CHOOSE f : Good(f, n)
           h == [n \in Nat |-> F(n)[n]]
<1>1. Walk(head, step) = CHOOSE g : Is(g)
  BY DEF Walk
<1>2. \A n \in Nat : \E f : Good(f, n)
  <2> DEFINE S == {n \in Nat : \E f : Good(f, n)}
  <2>1. 0 \in S
    <3>1. Good([k \in {0} |-> head], 0)
      OBVIOUS
    <3> QED
      BY <3>1
  <2>2. ASSUME NEW n \in S
        PROVE  n + 1 \in S
    <3>1. PICK f : Good(f, n)
      OBVIOUS
    <3> DEFINE g == [k \in 0 .. n + 1 |-> IF k = n + 1 THEN Go(f[n]) ELSE f[k]]
    <3> HIDE DEF Go
    <3>2. \A k \in 1 .. n + 1 : g[k] = Go(g[k - 1])
      <4> TAKE k \in 1 .. n + 1
      <4>1. CASE k = n + 1
        BY <4>1
      <4>2. CASE k # n + 1
        <5>1. k \in 1 .. n /\ g[k] = f[k] /\ g[k - 1] = f[k - 1]
          BY <4>2
        <5> QED
          BY <3>1, <5>1
      <4> QED
        BY <4>1, <4>2
    <3>3. g[0] = head
      BY <3>1
    <3> HIDE DEF g
    <3>4. Good(g, n + 1)
      BY <3>2, <3>3
    <3> QED
      BY <3>4
  <2> HIDE DEF Good
  <2>3. S \in SUBSET Nat
    OBVIOUS
  <2>4. S = Nat
    BY <2>1, <2>2, <2>3, AllNaturals
  <2> QED
    BY <2>4
<1>3. ASSUME NEW n \in Nat, NEW f, NEW g, Good(f, n), Good(g, n)
      PROVE  \A k \in 0 .. n : f[k] = g[k]
  <2> DEFINE S == {k \in Nat : k <= n => f[k] = g[k]}
  <2>1. 0 \in S
    BY <1>3
  <2>2. ASSUME NEW k \in S
        PROVE  k + 1 \in S
    <3> SUFFICES ASSUME k + 1 <= n PROVE f[k + 1] = g[k + 1]
      OBVIOUS
    <3>1. f[k] = g[k] /\ k + 1 \in 1 .. n /\ (k + 1) - 1 = k
      OBVIOUS
    <3> HIDE DEF Go
    <3> QED
      BY <3>1, <1>3
  <2>3. S = Nat
    <3> HIDE DEF Good
    <3> QED
      BY <2>1, <2>2, AllNaturals
  <2> QED
    BY <2>3
<1>4. \A n \in Nat : Good(F(n), n)
  <2> HIDE DEF Good
  <2> QED
    BY <1>2
<1>5. h[0] = head /\ \A n \in Nat : h[n + 1] = Go(h[n])
  <2>1. h[0] = head
    BY <1>4
  <2>2. ASSUME NEW n \in Nat
        PROVE  h[n + 1] = Go(h[n])
    <3> HIDE DEF Go, F
    <3>1. F(n + 1)[n + 1] = Go(F(n + 1)[n])
      <4>1. Good(F(n + 1), n + 1)
        BY <1>4
      <4>2. n + 1 \in 1 .. n + 1 /\ (n + 1) - 1 = n
        OBVIOUS
      <4> QED
        BY <4>1, <4>2
    <3>2. F(n + 1)[n] = F(n)[n]
      <4>1. Good(F(n + 1), n + 1) /\ Good(F(n), n)
        BY <1>4
      <4>2. Good(F(n + 1), n)
        BY <4>1
      <4> HIDE DEF Good
      <4> QED
        BY <4>1, <4>2, <1>3
    <3> QED
      BY <3>1, <3>2
  <2> QED
    BY <2>1, <2>2
<1>6. Is(h)
  <2>1. \A n \in Nat \ {0} : n - 1 \in Nat /\ (n - 1) + 1 = n
    OBVIOUS
  <2>2. \A n \in Nat : h[n] = IF n = 0 THEN head ELSE IF h[n - 1] = NULL THEN NULL ELSE step[h[n - 1]]
    BY <1>5, <2>1 DEF Step
  <2>3. h = [n \in Nat |-> h[n]]
    OBVIOUS
  <2> HIDE DEF h
  <2> QED
    BY <2>2, <2>3
<1> HIDE DEF h
<1>7. Is(Walk(head, step))
  <2> HIDE DEF Is
  <2> QED
    BY <1>1, <1>6
<1> DEFINE at == Walk(head, step)
<1> HIDE DEF at
<1>8. at = [n \in Nat |-> IF n = 0 THEN head ELSE IF at[n - 1] = NULL THEN NULL ELSE step[at[n - 1]]]
  BY <1>7 DEF at
<1>9. at[0] = head
  BY <1>8
<1>10. ASSUME NEW n \in Nat
       PROVE  at[n + 1] = Step(step, at[n])
  <2>1. n + 1 \in Nat /\ n + 1 # 0 /\ (n + 1) - 1 = n
    OBVIOUS
  <2> QED
    BY <1>8, <2>1 DEF Step
<1> QED
  BY <1>9, <1>10 DEF at

--------------------------------------------------------------------------------
(* Chains *)

\* From head on, step names the elements of s one after the other, and then NULL.
Chain(head, step, s) ==
    /\ head = IF s = <<>> THEN NULL ELSE s[1]
    /\ \A i \in 1 .. Len(s) : step[s[i]] = IF i < Len(s) THEN s[i + 1] ELSE NULL

LEMMA ChainWalk ==
    ASSUME NEW X, NULL \notin X, NEW head, NEW step, NEW s \in Seq(X), Chain(head, step, s)
    PROVE  \A n \in Nat : Walk(head, step)[n] = IF n < Len(s) THEN s[n + 1] ELSE NULL
<1> DEFINE at == Walk(head, step)
           L == Len(s)
           S == {n \in Nat : at[n] = IF n < L THEN s[n + 1] ELSE NULL}
<1>1. L \in Nat /\ \A i \in 1 .. L : s[i] # NULL
  OBVIOUS
<1>2. at[0] = head /\ \A n \in Nat : at[n + 1] = Step(step, at[n])
  BY WalkSteps
<1> HIDE DEF at
<1>3. 0 \in S
  <2>1. s = <<>> <=> L = 0
    OBVIOUS
  <2> QED
    BY <1>1, <1>2, <2>1 DEF Chain
<1>4. ASSUME NEW n \in S
      PROVE  n + 1 \in S
  <2>1. CASE n < L
    <3>1. n + 1 \in 1 .. L /\ at[n] = s[n + 1]
      BY <1>1, <2>1
    <3>2. at[n + 1] = step[s[n + 1]]
      BY <1>1, <1>2, <3>1 DEF Step
    <3>3. step[s[n + 1]] = IF n + 1 < L THEN s[(n + 1) + 1] ELSE NULL
      BY <3>1 DEF Chain
    <3> QED
      BY <3>2, <3>3
  <2>2. CASE ~(n < L)
    <3>1. n \in Nat /\ at[n] = NULL /\ ~(n + 1 < L)
      BY <1>1, <2>2
    <3>2. at[n + 1] = NULL
      BY <1>2, <3>1 DEF Step
    <3> QED
      BY <3>1, <3>2
  <2> QED
    BY <2>1, <2>2
<1>5. S = Nat
  BY <1>3, <1>4, AllNaturals
<1> QED
  BY <1>5 DEF at

LEMMA ChainSpells ==
    ASSUME NEW X, NULL \notin X, NEW head, NEW step, NEW s \in Seq(X), Chain(head, step, s)
    PROVE  Spells(head, step, s)
<1>1. \A n \in 0 .. Len(s) : n \in Nat
  OBVIOUS
<1> QED
  BY <1>1, ChainWalk DEF Spells

\* A chain that no step touches.
LEMMA SameChain ==
    ASSUME NEW head, NEW step, NEW new, NEW s, Chain(head, step, s),
           \A i \in 1 .. Len(s) : new[s[i]] = step[s[i]]
    PROVE  Chain(head, new, s)
BY DEF Chain

\* A new element behind the last one.
LEMMA LongerChain ==
    ASSUME NEW X, NEW head, NEW step, NEW s \in Seq(X), Chain(head, step, s), s # <<>>,
           IsInjective(s), NEW x \in X, NEW new, new[x] = NULL, new[s[Len(s)]] = x,
           \A i \in 1 .. Len(s) - 1 : new[s[i]] = step[s[i]]
    PROVE  Chain(head, new, Append(s, x))
<1> DEFINE r == Append(s, x)
           L == Len(s)
<1>1. /\ L \in Nat \ {0} /\ Len(r) = L + 1 /\ r # <<>>
      /\ \A i \in 1 .. L : r[i] = s[i]
      /\ r[L + 1] = x
  OBVIOUS
<1> HIDE DEF r
<1>2. head = r[1]
  BY <1>1 DEF Chain
<1>3. ASSUME NEW i \in 1 .. L + 1
      PROVE  new[r[i]] = IF i < L + 1 THEN r[i + 1] ELSE NULL
  <2>1. CASE i = L + 1
    BY <1>1, <2>1
  <2>2. CASE i = L
    BY <1>1, <2>2
  <2>3. CASE i \in 1 .. L - 1
    <3>1. i \in 1 .. L /\ i + 1 \in 1 .. L
      BY <1>1, <2>3
    <3>2. step[s[i]] = s[i + 1]
      BY <1>1, <2>3, <3>1 DEF Chain
    <3> QED
      BY <1>1, <2>3, <3>1, <3>2
  <2> QED
    BY <1>1, <2>1, <2>2, <2>3
<1>4. Chain(head, new, r)
  BY <1>1, <1>2, <1>3 DEF Chain
<1> QED
  BY <1>4 DEF r

\* An element taken out: the one before it, or the head, goes on to the one behind it.
LEMMA ShorterChain ==
    ASSUME NEW X, NEW head, NEW step, NEW s \in Seq(X), Chain(head, step, s), IsInjective(s),
           NEW p \in 1 .. Len(s), NEW front, NEW new,
           front = IF p = 1 THEN step[s[p]] ELSE head,
           p > 1 => new[s[p - 1]] = step[s[p]],
           \A i \in 1 .. Len(s) : i # p /\ i # p - 1 => new[s[i]] = step[s[i]]
    PROVE  Chain(front, new, RemoveFirst(s, s[p]))
<1> DEFINE r == RemoveFirst(s, s[p])
           L == Len(s)
<1>1. /\ r \in Seq(X) /\ Len(r) = L - 1 /\ L \in Nat
      /\ \A j \in 1 .. L - 1 : r[j] = IF j < p THEN s[j] ELSE s[j + 1]
  BY RemoveFirstAt
<1> HIDE DEF r
<1>2. \A i \in 1 .. L : step[s[i]] = IF i < L THEN s[i + 1] ELSE NULL
  BY DEF Chain
<1>3. front = IF r = <<>> THEN NULL ELSE r[1]
  <2>1. CASE L = 1
    <3>1. r = <<>> /\ p = 1
      BY <1>1, <2>1
    <3> QED
      BY <1>2, <2>1, <3>1
  <2>2. CASE L > 1
    <3>1. r # <<>> /\ 1 \in 1 .. L - 1
      BY <1>1, <2>2
    <3>2. head = s[1]
      <4>1. s # <<>>
        BY <2>2
      <4> QED
        BY <4>1 DEF Chain
    <3> QED
      BY <1>1, <1>2, <2>2, <3>1, <3>2
  <2> QED
    BY <1>1, <2>1, <2>2
<1>4. ASSUME NEW j \in 1 .. L - 1
      PROVE  new[r[j]] = IF j < L - 1 THEN r[j + 1] ELSE NULL
  <2>1. CASE j < p - 1
    <3>1. j \in 1 .. L /\ j + 1 \in 1 .. L - 1 /\ j # p /\ j # p - 1 /\ j < L
      BY <1>1, <2>1
    <3>2. new[s[j]] = s[j + 1]
      BY <1>2, <3>1
    <3> QED
      BY <1>1, <2>1, <3>1, <3>2
  <2>2. CASE j = p - 1
    <3>1. r[j] = s[p - 1] /\ p > 1
      BY <1>1, <2>2
    <3>2. new[r[j]] = IF p < L THEN s[p + 1] ELSE NULL
      BY <1>2, <3>1
    <3>3. j < L - 1 => r[j + 1] = s[p + 1]
      BY <1>1, <2>2
    <3> QED
      BY <1>1, <2>2, <3>2, <3>3
  <2>3. CASE j >= p
    <3>1. j + 1 \in 1 .. L /\ j + 1 # p /\ j + 1 # p - 1 /\ r[j] = s[j + 1]
      BY <1>1, <2>3
    <3>2. new[s[j + 1]] = IF j + 1 < L THEN s[(j + 1) + 1] ELSE NULL
      BY <1>2, <3>1
    <3>3. j < L - 1 => r[j + 1] = s[(j + 1) + 1]
      BY <1>1, <2>3
    <3> QED
      BY <1>1, <3>1, <3>2, <3>3
  <2> QED
    BY <1>1, <2>1, <2>2, <2>3
<1>5. Chain(front, new, r)
  BY <1>1, <1>3, <1>4 DEF Chain
<1> QED
  BY <1>5 DEF r

\* A sequence of different elements is no longer than a walk.
LEMMA ShortEnough ==
    ASSUME NEW X, IsFiniteSet(X), Cardinality(X) <= MaxWalk, NEW s \in Seq(X), IsInjective(s)
    PROVE  Len(s) <= MaxWalk
<1> DEFINE L == Len(s)
<1>1. L \in Nat /\ DOMAIN s = 1 .. L
  OBVIOUS
<1>2. s \in [1 .. L -> X]
  BY <1>1
<1>3. s \in Injection(1 .. L, X)
  BY <1>2 DEF Injection
<1>4. Cardinality(1 .. L) <= Cardinality(X)
  BY <1>3, FS_Injection
<1>5. Cardinality(1 .. L) = L /\ Cardinality(X) \in Nat /\ MaxWalk \in Nat
  <2>1. Cardinality(1 .. L) = L
    <3>1. 1 \in Int /\ L \in Int /\ 1 <= L + 1
      BY <1>1
    <3>2. Cardinality(1 .. L) = IF 1 > L THEN 0 ELSE L - 1 + 1
      BY <3>1, FS_Interval
    <3> QED
      BY <1>1, <3>2
  <2>2. Cardinality(X) \in Nat
    BY FS_CardinalityType
  <2> QED
    BY <2>1, <2>2, RpcAssumption
<1> QED
  BY <1>4, <1>5

LEMMA OnlyPlace == \A n \in Int : FirstPlace({n}) = n
BY DEF FirstPlace

\* The walk of an insertion ends at the last element of the chain.
LEMMA AttachedNew ==
    ASSUME NEW head, NEW s \in Seq(Records), Chain(head, link, s), s # <<>>, IsInjective(s),
           Len(s) <= MaxWalk, NEW sd \in Records, sd \notin ToSet(s), DOMAIN link = Records
    PROVE  /\ DOMAIN Attached(head, sd) = Records
           /\ Attached(head, sd)[sd] = NULL /\ Attached(head, sd)[s[Len(s)]] = sd
           /\ \A x \in Records : x # sd /\ x # s[Len(s)] => Attached(head, sd)[x] = link[x]
<1> DEFINE bare == [link EXCEPT ![sd] = NULL]
           at == Walk(head, bare)
           ends == {n \in 0 .. MaxWalk - 1 : at[n] # NULL /\ bare[at[n]] \in {NULL, sd}}
           L == Len(s)
<1>1. L \in Nat \ {0} /\ MaxWalk \in Nat /\ NULL \notin Records /\ sd # NULL
  BY RpcAssumption
<1>2. \A i \in 1 .. L : s[i] \in Records /\ s[i] # sd
  BY DEF ToSet
<1>3. \A x \in Records : bare[x] = IF x = sd THEN NULL ELSE link[x]
  OBVIOUS
<1>4. Chain(head, bare, s)
  BY <1>2, <1>3, SameChain
<1> HIDE DEF bare
<1>5. \A n \in Nat : at[n] = IF n < L THEN s[n + 1] ELSE NULL
  BY <1>1, <1>4, ChainWalk
<1>6. \A i \in 1 .. L : bare[s[i]] = IF i < L THEN s[i + 1] ELSE NULL
  BY <1>4 DEF Chain
<1> HIDE DEF at
<1>7. ends = {L - 1}
  <2>1. ASSUME NEW n \in ends
        PROVE  n = L - 1
    <3>1. n \in Nat /\ n < L /\ at[n] = s[n + 1]
      BY <1>1, <1>5
    <3>2. n + 1 \in 1 .. L
      BY <1>1, <3>1
    <3>3. ~(n + 1 < L)
      <4> SUFFICES ASSUME n + 1 < L PROVE FALSE
        OBVIOUS
      <4>1. (n + 1) + 1 \in 1 .. L
        BY <1>1, <3>1
      <4>2. bare[s[n + 1]] = s[(n + 1) + 1]
        BY <1>6, <3>2
      <4> QED
        BY <1>1, <1>2, <3>1, <4>1, <4>2
    <3> QED
      BY <1>1, <3>1, <3>3
  <2>2. L - 1 \in ends
    <3>1. L - 1 \in 0 .. MaxWalk - 1 /\ L - 1 \in Nat /\ L - 1 < L /\ (L - 1) + 1 = L
      BY <1>1
    <3>2. at[L - 1] = s[L]
      BY <1>5, <3>1
    <3> QED
      BY <1>1, <1>2, <1>6, <3>1, <3>2
  <2> QED
    BY <2>1, <2>2
<1> HIDE DEF ends
<1>8. at[FirstPlace(ends)] = s[L]
  BY <1>1, <1>5, <1>7, OnlyPlace
<1>9. Attached(head, sd) = [bare EXCEPT ![s[L]] = sd]
  <2>1. ends # {}
    BY <1>7
  <2> QED
    BY <1>8, <2>1 DEF Attached, bare, at, ends
<1>10. DOMAIN bare = Records /\ s[L] \in Records /\ s[L] # sd
  BY <1>1, <1>2 DEF bare
<1> QED
  BY <1>3, <1>9, <1>10

\* A record that stands last already is linked as it was.
LEMMA AttachedLast ==
    ASSUME NEW head, NEW s \in Seq(Records), Chain(head, link, s), IsInjective(s),
           Len(s) <= MaxWalk, NEW sd \in Records, LastOfMany(sd, s), DOMAIN link = Records
    PROVE  /\ DOMAIN Attached(head, sd) = Records
           /\ \A x \in Records : Attached(head, sd)[x] = link[x]
<1> DEFINE bare == [link EXCEPT ![sd] = NULL]
           at == Walk(head, bare)
           ends == {n \in 0 .. MaxWalk - 1 : at[n] # NULL /\ bare[at[n]] \in {NULL, sd}}
           L == Len(s)
<1>1. L \in Nat /\ L > 1 /\ s[L] = sd /\ MaxWalk \in Nat /\ NULL \notin Records /\ sd # NULL
  BY RpcAssumption DEF LastOfMany
<1>2. \A i \in 1 .. L : s[i] \in Records /\ (s[i] = sd => i = L)
  BY <1>1 DEF IsInjective
<1>3. link[sd] = NULL
  BY <1>1 DEF Chain
<1>4. DOMAIN bare = Records /\ \A x \in Records : bare[x] = link[x]
  BY <1>3
<1>5. Chain(head, bare, s)
  BY <1>2, <1>4, SameChain
<1> HIDE DEF bare
<1>6. \A n \in Nat : at[n] = IF n < L THEN s[n + 1] ELSE NULL
  BY <1>1, <1>5, ChainWalk
<1>7. \A i \in 1 .. L : bare[s[i]] = IF i < L THEN s[i + 1] ELSE NULL
  BY <1>5 DEF Chain
<1> HIDE DEF at
<1>8. ASSUME NEW n \in ends
      PROVE  n >= L - 2
  <2>1. n \in Nat /\ n < L /\ at[n] = s[n + 1] /\ n + 1 \in 1 .. L
    BY <1>1, <1>6
  <2>2. CASE n + 1 < L
    <3>1. bare[s[n + 1]] = s[(n + 1) + 1] /\ (n + 1) + 1 \in 1 .. L
      BY <1>7, <2>1, <2>2
    <3>2. s[(n + 1) + 1] # NULL
      BY <1>1, <1>2, <3>1
    <3>3. s[(n + 1) + 1] = sd
      BY <2>1, <3>1, <3>2
    <3>4. (n + 1) + 1 = L
      BY <1>2, <3>1, <3>3
    <3> QED
      BY <1>1, <2>1, <3>4
  <2> QED
    BY <1>1, <2>1, <2>2
<1>9. L - 2 \in ends
  <2>1. L - 2 \in 0 .. MaxWalk - 1 /\ L - 2 \in Nat /\ L - 2 < L /\ (L - 2) + 1 = L - 1
    BY <1>1
  <2>2. L - 1 \in 1 .. L /\ L - 1 < L /\ (L - 1) + 1 = L
    BY <1>1
  <2>3. at[L - 2] = s[L - 1] /\ bare[s[L - 1]] = sd
    BY <1>1, <1>6, <1>7, <2>1, <2>2
  <2> QED
    BY <1>1, <1>2, <2>1, <2>2, <2>3
<1>10. FirstPlace(ends) = L - 2
  <2>1. \A n \in ends : n \in Int
    OBVIOUS
  <2> HIDE DEF ends
  <2> QED
    BY <1>1, <1>8, <1>9, <2>1 DEF FirstPlace
<1>11. Attached(head, sd) = [bare EXCEPT ![s[L - 1]] = sd]
  <2>1. L - 2 \in Nat /\ L - 2 < L /\ (L - 2) + 1 = L - 1
    BY <1>1
  <2>2. at[FirstPlace(ends)] = s[L - 1]
    BY <1>6, <1>10, <2>1
  <2>3. ends # {}
    BY <1>9
  <2> QED
    BY <2>2, <2>3 DEF Attached, bare, at, ends
<1>12. bare[s[L - 1]] = sd
  <2>1. L - 1 \in 1 .. L /\ L - 1 < L /\ (L - 1) + 1 = L
    BY <1>1
  <2> QED
    BY <1>1, <1>7, <2>1
<1> QED
  BY <1>4, <1>11, <1>12

\* Taking an element out that a walk meets behind the head, or that it does not meet.
LEMMA BypassedOne ==
    ASSUME NEW X, NULL \notin X, NEW head, NEW step,
           NEW s \in Seq(X), Chain(head, step, s), IsInjective(s), Len(s) <= MaxWalk,
           NEW p \in 2 .. Len(s), NEW x, x = s[p], NEW y, y = s[p - 1]
    PROVE  Bypassed(head, step, x) = [step EXCEPT ![y] = step[x]]
<1> DEFINE at == Walk(head, step)
           before == {n \in 0 .. MaxWalk - 1 : at[n] # NULL /\ step[at[n]] = x}
           L == Len(s)
<1>1. L \in Nat /\ MaxWalk \in Nat /\ p \in 1 .. L /\ x # NULL
  BY RpcAssumption
<1>2. \A n \in Nat : at[n] = IF n < L THEN s[n + 1] ELSE NULL
  BY ChainWalk
<1>3. \A i \in 1 .. L : /\ step[s[i]] = IF i < L THEN s[i + 1] ELSE NULL
                        /\ s[i] # NULL /\ (s[i] = x => i = p)
  BY DEF Chain, IsInjective
<1> HIDE DEF at
<1>4. before = {p - 2}
  <2>1. ASSUME NEW n \in before
        PROVE  n = p - 2
    <3>1. n \in Nat /\ n < L /\ at[n] = s[n + 1] /\ n + 1 \in 1 .. L
      BY <1>1, <1>2
    <3>2. n + 1 < L /\ s[(n + 1) + 1] = x /\ (n + 1) + 1 \in 1 .. L
      BY <1>1, <1>3, <3>1
    <3>3. (n + 1) + 1 = p
      BY <1>3, <3>2
    <3> QED
      BY <1>1, <3>1, <3>3
  <2>2. p - 2 \in before
    <3>1. p - 2 \in 0 .. MaxWalk - 1 /\ p - 2 \in Nat /\ p - 2 < L /\ (p - 2) + 1 = p - 1
      BY <1>1
    <3>2. p - 1 \in 1 .. L /\ p - 1 < L /\ (p - 1) + 1 = p
      BY <1>1
    <3>3. at[p - 2] = s[p - 1]
      BY <1>2, <3>1
    <3>4. step[s[p - 1]] = x
      BY <1>3, <3>2
    <3> QED
      BY <1>3, <3>1, <3>2, <3>3, <3>4
  <2> QED
    BY <2>1, <2>2
<1> HIDE DEF before
<1>5. at[FirstPlace(before)] = s[p - 1]
  <2>1. p - 2 \in Nat /\ p - 2 < L /\ (p - 2) + 1 = p - 1
    BY <1>1
  <2> QED
    BY <1>2, <1>4, <2>1, OnlyPlace
<1>6. before # {}
  BY <1>4
<1> QED
  BY <1>5, <1>6 DEF Bypassed, before, at

LEMMA BypassedNone ==
    ASSUME NEW X, NULL \notin X, NEW head, NEW step, NEW s \in Seq(X), Chain(head, step, s),
           NEW x \in X, x \notin ToSet(s)
    PROVE  Bypassed(head, step, x) = step
<1> DEFINE at == Walk(head, step)
           before == {n \in 0 .. MaxWalk - 1 : at[n] # NULL /\ step[at[n]] = x}
           L == Len(s)
<1>1. L \in Nat /\ x # NULL
  OBVIOUS
<1>2. \A n \in Nat : at[n] = IF n < L THEN s[n + 1] ELSE NULL
  BY ChainWalk
<1>3. \A i \in 1 .. L : /\ step[s[i]] = IF i < L THEN s[i + 1] ELSE NULL
                        /\ s[i] # x
  BY DEF Chain, ToSet
<1> HIDE DEF at
<1>4. ASSUME NEW n \in before
      PROVE  FALSE
  <2>1. n \in Nat /\ n < L /\ at[n] = s[n + 1] /\ n + 1 \in 1 .. L
    BY <1>1, <1>2
  <2>2. n + 1 < L /\ s[(n + 1) + 1] = x /\ (n + 1) + 1 \in 1 .. L
    BY <1>1, <1>3, <2>1
  <2> QED
    BY <1>3, <2>2
<1>5. before = {}
  BY <1>4
<1> QED
  BY <1>5 DEF Bypassed, before, at

\* What a walk meets is what the chain holds.
LEMMA MetOnChain ==
    ASSUME NEW X, NULL \notin X, NEW head, NEW step, NEW s \in Seq(X), Chain(head, step, s),
           Len(s) <= MaxWalk, NEW x \in X
    PROVE  OnChain(head, step, x) <=> x \in ToSet(s)
<1> DEFINE at == Walk(head, step)
           L == Len(s)
<1>1. L \in Nat /\ MaxWalk \in Nat /\ x # NULL
  BY RpcAssumption
<1>2. \A n \in Nat : at[n] = IF n < L THEN s[n + 1] ELSE NULL
  BY ChainWalk
<1> HIDE DEF at
<1>3. ASSUME NEW n \in 0 .. MaxWalk, at[n] = x
      PROVE  x \in ToSet(s)
  <2>1. n \in Nat /\ n < L /\ x = s[n + 1] /\ n + 1 \in 1 .. L
    BY <1>1, <1>2, <1>3
  <2> QED
    BY <2>1 DEF ToSet
<1>4. ASSUME NEW i \in 1 .. L, s[i] = x
      PROVE  \E n \in 0 .. MaxWalk : at[n] = x
  <2>1. i - 1 \in 0 .. MaxWalk /\ i - 1 \in Nat /\ i - 1 < L /\ (i - 1) + 1 = i
    BY <1>1
  <2> QED
    BY <1>2, <1>4, <2>1
<1> QED
  BY <1>3, <1>4 DEF OnChain, at, ToSet

--------------------------------------------------------------------------------
(* The queues *)

\* Walks are long enough for all records and queues.
WalksReach ==
    /\ IsFiniteSet(Records) /\ Cardinality(Records) <= MaxWalk
    /\ IsFiniteSet(Queues) /\ Cardinality(Queues) <= MaxWalk

\* A record is on one queue at most, once; a queue is active once at most.
ListsApart ==
    /\ DOMAIN listed = Queues
    /\ \A q \in Queues : listed[q] \in Seq(Records) /\ IsInjective(listed[q])
    /\ \A q, r \in Queues : q # r => ToSet(listed[q]) \cap ToSet(listed[r]) = {}
    /\ enlisted \in Seq(Queues) /\ IsInjective(enlisted)

ServerChains ==
    /\ DOMAIN first = Queues /\ DOMAIN link = Records
    /\ \A q \in Queues : Chain(first[q], link, listed[q])

QueueChain == DOMAIN next = Queues /\ Chain(active, next, enlisted)

ChainsInv == ListsApart /\ ServerChains /\ QueueChain

\* No record and no queue is NULL, and only an empty chain begins with it.
LEMMA HeadOfChain ==
    ASSUME NEW X, NULL \notin X, NEW head, NEW step, NEW s \in Seq(X), Chain(head, step, s)
    PROVE  (head = NULL <=> s = <<>>) /\ (s # <<>> => head = s[1])
<1>1. s # <<>> => s[1] \in X
  OBVIOUS
<1> QED
  BY <1>1 DEF Chain

LEMMA InSet == ASSUME NEW X, NEW s \in Seq(X), NEW x PROVE In(x, s) <=> x \in ToSet(s)
BY DEF In, ToSet

LEMMA NoneRemoved ==
    ASSUME NEW X, NEW s \in Seq(X), NEW x, x \notin ToSet(s)
    PROVE  RemoveFirst(s, x) = s
BY DEF RemoveFirst, ToSet

\* The chains of the queues that a step leaves alone.
LEMMA OtherQueues ==
    ASSUME ChainsInv, NEW q \in Queues, NEW S, ToSet(listed[q]) \cap S = {},
           \A x \in Records \ S : link'[x] = link[x]
    PROVE  Chain(first[q], link', listed[q])
<1>1. listed[q] \in Seq(Records) /\ Chain(first[q], link, listed[q])
  BY DEF ChainsInv, ListsApart, ServerChains
<1>2. \A i \in 1 .. Len(listed[q]) : listed[q][i] \in Records /\ listed[q][i] \in ToSet(listed[q])
  BY <1>1 DEF ToSet
<1>3. \A i \in 1 .. Len(listed[q]) : link'[listed[q][i]] = link[listed[q][i]]
  BY <1>2
<1> QED
  BY <1>1, <1>3, SameChain

LEMMA RegisterChains ==
    ASSUME WalksReach, ChainsInv, NEW sd \in Records, NEW sid \in Sids, SifRegisterRpc(sd, sid)
    PROVE  ChainsInv'
<1>1. UNCHANGED <<active, next, enlisted>>
  BY DEF SifRegisterRpc
<1>2. QueueChain' /\ enlisted' \in Seq(Queues) /\ IsInjective(enlisted')
  BY <1>1 DEF ChainsInv, QueueChain, ListsApart
<1>3. /\ DOMAIN first = Queues /\ DOMAIN link = Records /\ DOMAIN listed = Queues
      /\ \A q \in Queues : listed[q] \in Seq(Records) /\ IsInjective(listed[q])
      /\ \A q, r \in Queues : q # r => ToSet(listed[q]) \cap ToSet(listed[r]) = {}
      /\ \A q \in Queues : Chain(first[q], link, listed[q])
      /\ NULL \notin Records
  BY RpcAssumption DEF ChainsInv, ListsApart, ServerChains
<1>4. CASE /\ \A q \in Queues : ~In(sd, listed[q])
           /\ link' = [link EXCEPT ![sd] = NULL] /\ UNCHANGED <<first, listed>>
  <2>1. DOMAIN link' = Records /\ \A x \in Records \ {sd} : link'[x] = link[x]
    BY <1>3, <1>4
  <2>2. ASSUME NEW q \in Queues
        PROVE  Chain(first'[q], link', listed'[q])
    <3>1. ToSet(listed[q]) \cap {sd} = {}
      BY <1>3, <1>4, InSet
    <3> QED
      BY <1>4, <2>1, <3>1, OtherQueues
  <2> QED
    BY <1>2, <1>3, <1>4, <2>1, <2>2 DEF ChainsInv, ListsApart, ServerChains
<1>5. ASSUME NEW q \in Queues,
             LastOfMany(sd, listed[q]) \/ \A r \in Queues : ~In(sd, listed[r]),
             \/ /\ first[q] = NULL
                /\ first' = [first EXCEPT ![q] = sd]
                /\ link' = [link EXCEPT ![sd] = NULL]
             \/ first[q] # NULL /\ link' = Attached(first[q], sd) /\ UNCHANGED first,
             listed' = [listed EXCEPT ![q] = With(@, sd)]
      PROVE  ChainsInv'
  <2> DEFINE s == listed[q]
  <2>1. /\ s \in Seq(Records) /\ IsInjective(s) /\ Chain(first[q], link, s)
        /\ (first[q] = NULL <=> s = <<>>) /\ Len(s) <= MaxWalk
    BY <1>3, HeadOfChain, ShortEnough DEF WalksReach
  <2>2. CASE LastOfMany(sd, s)
    <3>1. s # <<>> /\ In(sd, s)
      <4>1. Len(s) \in 1 .. Len(s) /\ Len(s) > 1
        BY <2>1, <2>2 DEF LastOfMany
      <4> QED
        BY <2>2, <4>1 DEF LastOfMany, In
    <3>2. link' = Attached(first[q], sd) /\ UNCHANGED first
      BY <1>5, <2>1, <3>1
    <3>3. DOMAIN link' = Records /\ \A x \in Records \ {} : link'[x] = link[x]
      BY <1>3, <2>1, <2>2, <3>2, AttachedLast
    <3>4. \A r \in Queues : listed'[r] = listed[r]
      BY <1>3, <1>5, <3>1 DEF With
    <3>5. DOMAIN listed' = Queues
      BY <1>3, <1>5
    <3>6. ASSUME NEW r \in Queues
          PROVE  Chain(first'[r], link', listed'[r])
      <4>1. ToSet(listed[r]) \cap {} = {}
        OBVIOUS
      <4>2. Chain(first[r], link', listed[r])
        BY <3>3, <4>1, OtherQueues
      <4> QED
        BY <3>2, <3>4, <4>2
    <3> QED
      BY <1>2, <1>3, <3>2, <3>3, <3>4, <3>5, <3>6 DEF ChainsInv, ListsApart, ServerChains
  <2>3. CASE \A r \in Queues : ~In(sd, listed[r])
    <3>1. \A r \in Queues : sd \notin ToSet(listed[r])
      BY <1>3, <2>3, InSet
    <3>2. /\ listed' = [listed EXCEPT ![q] = Append(s, sd)]
          /\ Append(s, sd) \in Seq(Records) /\ IsInjective(Append(s, sd))
          /\ ToSet(Append(s, sd)) = ToSet(s) \cup {sd}
      <4>1. With(s, sd) = Append(s, sd)
        BY <2>3 DEF With
      <4>2. sd \notin ToSet(s)
        BY <3>1
      <4> HIDE DEF s
      <4>3. /\ Append(s, sd) \in Seq(Records) /\ IsInjective(Append(s, sd))
            /\ ToSet(Append(s, sd)) = ToSet(s) \cup {sd}
        BY <2>1, <4>2, AppendNew
      <4> QED
        BY <1>5, <4>1, <4>3 DEF s
    <3>3. ListsApart'
      <4> DEFINE u == Append(s, sd)
      <4>1. /\ listed' = [listed EXCEPT ![q] = u] /\ u \in Seq(Records) /\ IsInjective(u)
            /\ ToSet(u) = ToSet(s) \cup {sd}
        BY <3>2
      <4> HIDE DEF u
      <4>2. /\ DOMAIN listed' = Queues /\ listed'[q] = u
            /\ \A r \in Queues \ {q} : listed'[r] = listed[r]
        BY <1>3, <4>1
      <4>3. \A r \in Queues : listed'[r] \in Seq(Records) /\ IsInjective(listed'[r])
        BY <1>3, <4>1, <4>2
      <4>4. \A r \in Queues \ {q} : ToSet(u) \cap ToSet(listed[r]) = {}
        BY <1>3, <3>1, <4>1
      <4>5. ASSUME NEW r \in Queues, NEW t \in Queues, r # t
            PROVE  ToSet(listed'[r]) \cap ToSet(listed'[t]) = {}
        BY <1>3, <4>2, <4>4, <4>5
      <4> QED
        BY <1>2, <4>2, <4>3, <4>5 DEF ListsApart
    <3>4. CASE first[q] = NULL
      <4>1. /\ first' = [first EXCEPT ![q] = sd] /\ link' = [link EXCEPT ![sd] = NULL]
            /\ s = <<>>
        BY <1>5, <2>1, <3>4
      <4>2. DOMAIN link' = Records /\ link'[sd] = NULL /\ \A x \in Records \ {sd} : link'[x] = link[x]
        BY <1>3, <4>1
      <4>3. Chain(sd, link', <<sd>>)
        BY <4>2 DEF Chain
      <4>4. Append(s, sd) = <<sd>>
        BY <4>1
      <4>5. ASSUME NEW r \in Queues, r # q
            PROVE  Chain(first'[r], link', listed'[r])
        <5>1. ToSet(listed[r]) \cap {sd} = {}
          BY <3>1
        <5>2. first'[r] = first[r] /\ listed'[r] = listed[r]
          BY <1>3, <3>2, <4>1, <4>5
        <5> QED
          BY <4>2, <5>1, <5>2, OtherQueues
      <4>6. first'[q] = sd /\ listed'[q] = <<sd>> /\ DOMAIN first' = Queues
        BY <1>3, <3>2, <4>1, <4>4
      <4> QED
        BY <1>2, <3>3, <4>2, <4>3, <4>5, <4>6 DEF ChainsInv, ServerChains
    <3>5. CASE first[q] # NULL
      <4>1. link' = Attached(first[q], sd) /\ UNCHANGED first /\ s # <<>>
        BY <1>5, <2>1, <3>5
      <4> DEFINE last == s[Len(s)]
      <4>2. /\ DOMAIN link' = Records /\ link'[sd] = NULL /\ link'[last] = sd
            /\ \A x \in Records \ {sd, last} : link'[x] = link[x]
        BY <1>3, <2>1, <3>1, <4>1, AttachedNew
      <4>3. last \in ToSet(s) /\ \A i \in 1 .. Len(s) - 1 : s[i] \in Records /\ s[i] \notin {sd, last}
        <5>1. Len(s) \in 1 .. Len(s) /\ Len(s) \in Nat
          BY <2>1, <4>1
        <5>2. \A i \in 1 .. Len(s) : s[i] \in Records /\ s[i] # sd
          BY <2>1, <3>1 DEF ToSet
        <5> QED
          BY <2>1, <5>1, <5>2 DEF ToSet, IsInjective
      <4> HIDE DEF last
      <4>4. \A i \in 1 .. Len(s) - 1 : link'[s[i]] = link[s[i]]
        BY <4>2, <4>3
      <4>5. Chain(first[q], link', Append(s, sd))
        BY <2>1, <4>1, <4>2, <4>4, LongerChain DEF last
      <4>6. ASSUME NEW r \in Queues, r # q
            PROVE  Chain(first'[r], link', listed'[r])
        <5>1. ToSet(listed[r]) \cap {sd, last} = {}
          BY <1>3, <3>1, <4>3, <4>6
        <5>2. first'[r] = first[r] /\ listed'[r] = listed[r]
          BY <1>3, <3>2, <4>1, <4>6
        <5> QED
          BY <4>2, <5>1, <5>2, OtherQueues
      <4>7. listed'[q] = Append(s, sd)
        BY <1>3, <3>2
      <4> QED
        BY <1>2, <1>3, <3>3, <4>1, <4>2, <4>5, <4>6, <4>7 DEF ChainsInv, ServerChains
    <3> QED
      BY <3>4, <3>5
  <2> QED
    BY <1>5, <2>2, <2>3
<1> QED
  BY <1>4, <1>5 DEF SifRegisterRpc

LEMMA RemoveChains ==
    ASSUME WalksReach, ChainsInv, NEW sd \in Records, NEW q \in Queues, SifRemoveRpc(sd, q)
    PROVE  ChainsInv'
<1> DEFINE s == listed[q]
           r == RemoveFirst(s, sd)
<1>1. UNCHANGED <<active, next, enlisted>> /\ listed' = [listed EXCEPT ![q] = r]
  BY DEF SifRemoveRpc
<1>2. QueueChain' /\ enlisted' \in Seq(Queues) /\ IsInjective(enlisted')
  BY <1>1 DEF ChainsInv, QueueChain, ListsApart
<1>3. /\ DOMAIN first = Queues /\ DOMAIN link = Records /\ DOMAIN listed = Queues
      /\ \A t \in Queues : listed[t] \in Seq(Records) /\ IsInjective(listed[t])
      /\ \A t, u \in Queues : t # u => ToSet(listed[t]) \cap ToSet(listed[u]) = {}
      /\ \A t \in Queues : Chain(first[t], link, listed[t])
      /\ NULL \notin Records
  BY RpcAssumption DEF ChainsInv, ListsApart, ServerChains
<1>4. /\ s \in Seq(Records) /\ IsInjective(s) /\ Chain(first[q], link, s)
      /\ (first[q] = NULL <=> s = <<>>) /\ (s # <<>> => first[q] = s[1]) /\ Len(s) <= MaxWalk
  BY <1>3, HeadOfChain, ShortEnough DEF WalksReach
<1>5. r \in Seq(Records) /\ ToSet(r) = ToSet(s) \ {sd} /\ IsInjective(r)
  BY <1>4, RemoveFirstOf
<1>6. OnChain(first[q], link, sd) <=> sd \in ToSet(s)
  BY <1>3, <1>4, MetOnChain
<1>7. sd \notin ToSet(s) => r = s
  BY <1>4, NoneRemoved
<1>8. \A p \in 1 .. Len(s) : s[p] = sd => /\ s[p] \in ToSet(s)
                                         /\ \A i \in 1 .. Len(s) : i # p => s[i] # sd
  BY <1>4 DEF ToSet, IsInjective
<1> HIDE DEF r, s
<1>9. /\ DOMAIN listed' = Queues /\ listed'[q] = r
      /\ \A t \in Queues \ {q} : listed'[t] = listed[t]
  BY <1>1, <1>3
<1>10. ListsApart'
  <2>1. \A t \in Queues : listed'[t] \in Seq(Records) /\ IsInjective(listed'[t])
    BY <1>3, <1>5, <1>9
  <2>2. \A t \in Queues : ToSet(listed'[t]) \subseteq ToSet(listed[t])
    BY <1>5, <1>9 DEF s
  <2>3. ASSUME NEW t \in Queues, NEW u \in Queues, t # u
        PROVE  ToSet(listed'[t]) \cap ToSet(listed'[u]) = {}
    BY <1>3, <2>2, <2>3
  <2> QED
    BY <1>2, <1>9, <2>1, <2>3 DEF ListsApart
<1>11. ASSUME DOMAIN first' = Queues, DOMAIN link' = Records, Chain(first'[q], link', r),
              \A t \in Queues \ {q} : first'[t] = first[t],
              \A x \in Records \ ToSet(s) : link'[x] = link[x]
       PROVE  ChainsInv'
  <2>1. ASSUME NEW t \in Queues, t # q
        PROVE  Chain(first'[t], link', listed'[t])
    <3>1. ToSet(listed[t]) \cap ToSet(s) = {}
      BY <1>3, <2>1 DEF s
    <3> QED
      BY <1>9, <1>11, <2>1, <3>1, OtherQueues
  <2> QED
    BY <1>2, <1>9, <1>10, <1>11, <2>1 DEF ChainsInv, ServerChains
<1>12. CASE /\ first[q] = sd
            /\ first' = [first EXCEPT ![q] = link[sd]] /\ link' = [link EXCEPT ![sd] = NULL]
  <2>1. s # <<>> /\ s[1] = sd /\ 1 \in 1 .. Len(s)
    BY <1>3, <1>4, <1>12
  <2>2. /\ DOMAIN link' = Records /\ \A x \in Records : x # sd => link'[x] = link[x]
        /\ DOMAIN first' = Queues /\ first'[q] = link[sd]
        /\ \A t \in Queues \ {q} : first'[t] = first[t]
    BY <1>3, <1>12
  <2>3. \A i \in 1 .. Len(s) : i # 1 => link'[s[i]] = link[s[i]]
    BY <1>4, <1>8, <2>1, <2>2
  <2>4. Chain(first'[q], link', RemoveFirst(s, s[1]))
    BY <1>4, <2>1, <2>2, <2>3, ShorterChain
  <2>5. sd \in ToSet(s)
    BY <1>8, <2>1
  <2> QED
    BY <1>11, <2>1, <2>2, <2>4, <2>5 DEF r
<1>13. CASE /\ first[q] # sd /\ OnChain(first[q], link, sd)
            /\ link' = [Bypassed(first[q], link, sd) EXCEPT ![sd] = NULL] /\ UNCHANGED first
  <2>1. PICK p \in 1 .. Len(s) : s[p] = sd
    BY <1>4, <1>6, <1>13 DEF ToSet
  <2>2. p # 1 /\ p \in 2 .. Len(s) /\ p - 1 \in 1 .. Len(s) /\ p - 1 # p
    <3>1. p # 1
      BY <1>4, <1>13, <2>1
    <3> QED
      BY <1>4, <3>1
  <2>3. Bypassed(first[q], link, sd) = [link EXCEPT ![s[p - 1]] = link[sd]]
    BY <1>3, <1>4, <2>1, <2>2, BypassedOne
  <2>4. s[p - 1] \in Records /\ s[p - 1] # sd /\ s[p - 1] \in ToSet(s) /\ sd \in ToSet(s)
    BY <1>4, <1>8, <2>1, <2>2 DEF ToSet
  <2>5. /\ DOMAIN link' = Records /\ link'[s[p - 1]] = link[sd]
        /\ \A x \in Records : x # sd /\ x # s[p - 1] => link'[x] = link[x]
    BY <1>3, <1>13, <2>3, <2>4
  <2>6. \A i \in 1 .. Len(s) : i # p /\ i # p - 1 => s[i] \in Records /\ s[i] # sd /\ s[i] # s[p - 1]
    BY <1>4, <1>8, <2>1, <2>2 DEF IsInjective
  <2>7. \A i \in 1 .. Len(s) : i # p /\ i # p - 1 => link'[s[i]] = link[s[i]]
    BY <2>5, <2>6
  <2>8. Chain(first'[q], link', RemoveFirst(s, s[p]))
    BY <1>4, <1>13, <2>1, <2>2, <2>5, <2>7, ShorterChain
  <2> QED
    BY <1>3, <1>11, <1>13, <2>1, <2>4, <2>5, <2>8 DEF r
<1>14. CASE ~OnChain(first[q], link, sd) /\ UNCHANGED <<first, link>>
  <2>1. r = s
    BY <1>6, <1>7, <1>14
  <2> QED
    BY <1>3, <1>4, <1>11, <1>14, <2>1
<1> QED
  BY <1>12, <1>13, <1>14 DEF SifRemoveRpc

\* Setting and removing a queue.
LEMMA QueueChains ==
    ASSUME WalksReach, ChainsInv, NEW q \in Queues, SifSetRpcQueue(q) \/ SifRemoveRpcQueue(q)
    PROVE  ChainsInv'
<1> DEFINE s == enlisted
<1>1. /\ DOMAIN first = Queues /\ DOMAIN link = Records /\ DOMAIN listed = Queues
      /\ \A t \in Queues : listed[t] \in Seq(Records) /\ IsInjective(listed[t])
      /\ \A t, u \in Queues : t # u => ToSet(listed[t]) \cap ToSet(listed[u]) = {}
      /\ \A t \in Queues : Chain(first[t], link, listed[t])
      /\ NULL \notin Records /\ NULL \notin Queues /\ q # NULL
  BY RpcAssumption DEF ChainsInv, ListsApart, ServerChains
<1>2. /\ s \in Seq(Queues) /\ IsInjective(s) /\ Chain(active, next, s) /\ DOMAIN next = Queues
      /\ (active = NULL <=> s = <<>>) /\ (s # <<>> => active = s[1]) /\ Len(s) <= MaxWalk
  BY <1>1, HeadOfChain, ShortEnough DEF WalksReach, ChainsInv, ListsApart, QueueChain
<1>3. CASE SifSetRpcQueue(q)
  <2>1. /\ first' = [first EXCEPT ![q] = NULL] /\ listed' = [listed EXCEPT ![q] = <<>>]
        /\ enlisted' = With(s, q) /\ UNCHANGED link
        /\ In(q, s) => s[Len(s)] = q
    BY <1>3 DEF SifSetRpcQueue
  <2>2. ServerChains'
    <3>1. Chain(NULL, link, <<>>)
      BY DEF Chain
    <3>2. /\ DOMAIN first' = Queues /\ first'[q] = NULL /\ listed'[q] = <<>>
          /\ \A t \in Queues \ {q} : first'[t] = first[t] /\ listed'[t] = listed[t]
      BY <1>1, <2>1
    <3> QED
      BY <1>1, <2>1, <3>1, <3>2 DEF ServerChains
  <2>3. /\ DOMAIN listed' = Queues
        /\ \A t \in Queues : listed'[t] \in Seq(Records) /\ IsInjective(listed'[t])
        /\ \A t, u \in Queues : t # u => ToSet(listed'[t]) \cap ToSet(listed'[u]) = {}
    <3>1. <<>> \in Seq(Records) /\ IsInjective(<<>>) /\ ToSet(<<>>) = {}
      BY DEF IsInjective, ToSet
    <3>2. /\ DOMAIN listed' = Queues /\ listed'[q] = <<>>
          /\ \A t \in Queues \ {q} : listed'[t] = listed[t]
      BY <1>1, <2>1
    <3> QED
      BY <1>1, <3>1, <3>2
  <2>4. In(q, s) <=> q \in ToSet(s)
    BY <1>2, InSet
  <2>5. CASE active = NULL
    <3>1. active' = q /\ next' = [next EXCEPT ![q] = NULL] /\ s = <<>>
      BY <1>2, <1>3, <2>5 DEF SifSetRpcQueue
    <3>2. enlisted' = <<q>>
      BY <2>1, <3>1 DEF With, In
    <3>3. Chain(q, next', <<q>>) /\ DOMAIN next' = Queues
      BY <1>2, <3>1 DEF Chain
    <3>4. <<q>> \in Seq(Queues) /\ IsInjective(<<q>>)
      BY DEF IsInjective
    <3> QED
      BY <2>2, <2>3, <3>1, <3>2, <3>3, <3>4 DEF ChainsInv, QueueChain, ListsApart
  <2>6. CASE active # NULL
    <3>1. next' = Enlisted(q) /\ UNCHANGED active /\ s # <<>>
      BY <1>2, <1>3, <2>6 DEF SifSetRpcQueue
    <3> DEFINE bare == [next EXCEPT ![q] = NULL]
               at == Walk(active, bare)
               ends == {n \in 0 .. MaxWalk - 1 : at[n] # NULL /\ (at[n] = q \/ bare[at[n]] = NULL)}
               L == Len(s)
    <3>2. L \in Nat \ {0} /\ MaxWalk \in Nat
      BY <1>2, <3>1, RpcAssumption
    <3>3. \A i \in 1 .. L : s[i] \in Queues /\ (s[i] = q => i = L)
      BY <1>2, <2>1, <2>4 DEF ToSet, IsInjective, In
    <3>4. DOMAIN bare = Queues /\ \A x \in Queues : bare[x] = IF x = q THEN NULL ELSE next[x]
      BY <1>2
    <3>5. \A i \in 1 .. L : bare[s[i]] = next[s[i]]
      <4>1. \A i \in 1 .. L : s[i] = q => next[s[i]] = NULL
        BY <1>2, <3>2, <3>3 DEF Chain
      <4> QED
        BY <3>3, <3>4, <4>1
    <3>6. Chain(active, bare, s)
      BY <1>2, <3>5, SameChain
    <3> HIDE DEF bare
    <3>7. \A n \in Nat : at[n] = IF n < L THEN s[n + 1] ELSE NULL
      BY <1>1, <1>2, <3>6, ChainWalk
    <3>8. \A i \in 1 .. L : bare[s[i]] = IF i < L THEN s[i + 1] ELSE NULL
      BY <3>6 DEF Chain
    <3> HIDE DEF at
    <3>9. ends = {L - 1}
      <4>1. ASSUME NEW n \in ends
            PROVE  n = L - 1
        <5>1. n \in Nat /\ n < L /\ at[n] = s[n + 1] /\ n + 1 \in 1 .. L
          BY <3>2, <3>7
        <5>2. ~(n + 1 < L)
          <6> SUFFICES ASSUME n + 1 < L PROVE FALSE
            OBVIOUS
          <6>1. (n + 1) + 1 \in 1 .. L /\ bare[s[n + 1]] = s[(n + 1) + 1]
            BY <3>2, <3>8, <5>1
          <6>2. s[n + 1] # q
            BY <3>2, <3>3, <5>1
          <6> QED
            BY <1>1, <3>3, <5>1, <6>1, <6>2
        <5> QED
          BY <3>2, <5>1, <5>2
      <4>2. L - 1 \in ends
        <5>1. L - 1 \in 0 .. MaxWalk - 1 /\ L - 1 \in Nat /\ L - 1 < L /\ (L - 1) + 1 = L
          BY <1>2, <3>2
        <5>2. at[L - 1] = s[L]
          BY <3>7, <5>1
        <5>3. L \in 1 .. L /\ ~(L < L)
          BY <3>2
        <5>4. bare[s[L]] = NULL /\ s[L] \in Queues
          BY <3>3, <3>8, <5>3
        <5> QED
          BY <1>1, <5>1, <5>2, <5>4
      <4> QED
        BY <4>1, <4>2
    <3> HIDE DEF ends
    <3>10. at[FirstPlace(ends)] = s[L]
      BY <3>2, <3>7, <3>9, OnlyPlace
    <3>11. next' = IF s[L] = q THEN bare ELSE [bare EXCEPT ![s[L]] = q]
      <4>1. ends # {}
        BY <3>9
      <4> QED
        BY <3>1, <3>10, <4>1 DEF Enlisted, bare, at, ends
    <3>12. CASE In(q, s)
      <4>1. enlisted' = s /\ next' = bare
        BY <2>1, <3>11, <3>12 DEF With
      <4> QED
        BY <1>2, <2>2, <2>3, <3>1, <3>4, <3>6, <4>1 DEF ChainsInv, QueueChain, ListsApart
    <3>13. CASE ~In(q, s)
      <4>1. /\ enlisted' = Append(s, q) /\ Append(s, q) \in Seq(Queues)
            /\ IsInjective(Append(s, q))
        BY <1>2, <2>1, <2>4, <3>13, AppendNew DEF With
      <4>2. \A i \in 1 .. L : s[i] \in Queues /\ s[i] # q
        BY <1>2, <2>4, <3>13 DEF ToSet
      <4>3. next' = [bare EXCEPT ![s[L]] = q] /\ s[L] \in Queues /\ s[L] # q
        BY <3>2, <3>11, <4>2
      <4>4. /\ DOMAIN next' = Queues /\ next'[s[L]] = q /\ next'[q] = NULL
            /\ \A x \in Queues : x # s[L] => next'[x] = bare[x]
        BY <3>4, <4>3
      <4>5. \A i \in 1 .. L - 1 : next'[s[i]] = bare[s[i]]
        <5>1. \A i \in 1 .. L - 1 : i \in 1 .. L /\ s[i] \in Queues /\ s[i] # s[L]
          BY <1>2, <3>2, <4>2 DEF IsInjective
        <5> QED
          BY <4>4, <5>1
      <4>6. Chain(active, next', Append(s, q))
        BY <1>2, <3>1, <3>6, <4>4, <4>5, LongerChain
      <4> QED
        BY <2>2, <2>3, <3>1, <4>1, <4>4, <4>6 DEF ChainsInv, QueueChain, ListsApart
    <3> QED
      BY <3>12, <3>13
  <2> QED
    BY <2>5, <2>6
<1>4. CASE SifRemoveRpcQueue(q)
  <2> DEFINE r == RemoveFirst(s, q)
  <2>1. UNCHANGED <<first, link, listed>> /\ enlisted' = r
    BY <1>4 DEF SifRemoveRpcQueue
  <2>2. r \in Seq(Queues) /\ IsInjective(r)
    BY <1>2, RemoveFirstOf
  <2>3. ServerChains' /\ ListsApart'
    BY <2>1, <2>2 DEF ChainsInv, ServerChains, ListsApart
  <2>4. CASE active = q /\ active' = next[q] /\ UNCHANGED next
    <3>1. s # <<>> /\ s[1] = q /\ 1 \in 1 .. Len(s)
      BY <1>1, <1>2, <2>4
    <3>2. Chain(active', next', RemoveFirst(s, s[1]))
      BY <1>2, <2>4, <3>1, ShorterChain
    <3> QED
      BY <1>2, <2>1, <2>3, <2>4, <3>1, <3>2 DEF ChainsInv, QueueChain
  <2>5. CASE active # q /\ next' = Bypassed(active, next, q) /\ UNCHANGED active
    <3>1. CASE q \notin ToSet(s)
      <4>1. next' = next /\ r = s
        BY <1>1, <1>2, <2>5, <3>1, BypassedNone, NoneRemoved
      <4> QED
        BY <1>2, <2>1, <2>3, <2>5, <4>1 DEF ChainsInv, QueueChain
    <3>2. CASE q \in ToSet(s)
      <4>1. PICK p \in 1 .. Len(s) : s[p] = q
        BY <1>2, <3>2 DEF ToSet
      <4>2. p \in 2 .. Len(s) /\ p - 1 \in 1 .. Len(s) /\ p # 1
        <5>1. p # 1
          BY <1>2, <2>5, <4>1
        <5> QED
          BY <1>2, <5>1
      <4>3. next' = [next EXCEPT ![s[p - 1]] = next[s[p]]]
        <5>1. NULL \notin Queues /\ DOMAIN next = Queues
          BY <1>1, <1>2
        <5>2. s \in Seq(Queues) /\ Chain(active, next, s) /\ IsInjective(s) /\ Len(s) <= MaxWalk
          BY <1>2
        <5> HIDE DEF s
        <5>3. Bypassed(active, next, q) = [next EXCEPT ![s[p - 1]] = next[q]]
          BY <4>1, <4>2, <5>1, <5>2, BypassedOne
        <5> QED
          BY <2>5, <4>1, <5>3
      <4>4. s[p - 1] \in Queues
        BY <1>2, <4>2
      <4>5. /\ DOMAIN next' = Queues /\ next'[s[p - 1]] = next[s[p]]
            /\ \A x \in Queues : x # s[p - 1] => next'[x] = next[x]
        BY <1>2, <4>3, <4>4
      <4>6. \A i \in 1 .. Len(s) : i # p /\ i # p - 1 => s[i] \in Queues /\ s[i] # s[p - 1]
        BY <1>2, <4>2 DEF IsInjective
      <4>7. \A i \in 1 .. Len(s) : i # p /\ i # p - 1 => next'[s[i]] = next[s[i]]
        BY <4>5, <4>6
      <4>8. Chain(active', next', RemoveFirst(s, s[p]))
        BY <1>2, <2>5, <4>2, <4>5, <4>7, ShorterChain
      <4> QED
        BY <2>1, <2>3, <4>1, <4>5, <4>8 DEF ChainsInv, QueueChain
    <3> QED
      BY <3>1, <3>2
  <2> QED
    BY <1>4, <2>4, <2>5 DEF SifRemoveRpcQueue
<1> QED
  BY <1>3, <1>4

LEMMA ChainsStart == Init => ChainsInv
<1> SUFFICES ASSUME Init PROVE ChainsInv
  OBVIOUS
<1>1. /\ first = [q \in Queues |-> NULL] /\ link = [sd \in Records |-> NULL]
      /\ active = NULL /\ next = [q \in Queues |-> NULL]
      /\ listed = [q \in Queues |-> <<>>] /\ enlisted = <<>>
  BY DEF Init
<1>2. /\ <<>> \in Seq(Records) /\ <<>> \in Seq(Queues) /\ IsInjective(<<>>) /\ ToSet(<<>>) = {}
      /\ \A step : Chain(NULL, step, <<>>)
  BY DEF IsInjective, ToSet, Chain
<1> QED
  BY <1>1, <1>2 DEF ChainsInv, ListsApart, ServerChains, QueueChain

LEMMA ChainsStep ==
    ASSUME WalksReach, ChainsInv, [Next]_vars
    PROVE  ChainsInv'
<1>1. CASE UNCHANGED chainVars
  BY <1>1 DEF chainVars, ChainsInv, ListsApart, ServerChains, QueueChain
<1>2. CASE SifInitRpc
  <2>1. CASE UNCHANGED <<active, enlisted>>
    <3>1. UNCHANGED chainVars
      BY <1>2, <2>1 DEF SifInitRpc, chainVars
    <3> QED
      BY <1>1, <3>1
  <2>2. CASE active' = NULL /\ enlisted' = <<>>
    <3>1. UNCHANGED <<first, link, next, listed>>
      BY <1>2 DEF SifInitRpc
    <3>2. <<>> \in Seq(Queues) /\ IsInjective(<<>>) /\ Chain(NULL, next, <<>>)
      BY DEF IsInjective, Chain
    <3> QED
      BY <2>2, <3>1, <3>2 DEF ChainsInv, ListsApart, ServerChains, QueueChain
  <2> QED
    BY <1>2, <2>1, <2>2 DEF SifInitRpc
<1>3. ASSUME NEW sd \in Records, NEW sid \in Sids, SifRegisterRpc(sd, sid)
      PROVE  ChainsInv'
  BY <1>3, RegisterChains
<1>4. ASSUME NEW sd \in Records, NEW q \in Queues, SifRemoveRpc(sd, q)
      PROVE  ChainsInv'
  BY <1>4, RemoveChains
<1>5. ASSUME NEW q \in Queues, SifSetRpcQueue(q) \/ SifRemoveRpcQueue(q)
      PROVE  ChainsInv'
  BY <1>5, QueueChains
<1>6. (\E c \in Clients, sid \in Sids : SifBindRpc(c, sid)) \/ Calling => UNCHANGED chainVars
  BY DEF SifBindRpc, Calling, SifCallRpc, ServerReturns, CallbackReturns, ThreadEnds
<1>7. UNCHANGED rpcVars \/ UNCHANGED vars => UNCHANGED chainVars
  BY DEF rpcVars, vars
<1> QED
  BY <1>1, <1>2, <1>3, <1>4, <1>5, <1>6, <1>7 DEF Next, Tables

\* The chains in guest memory are what was registered, in order and with an end, on any
\* number of queues that the walks of 1024 steps can reach to the end: the new links of
\* one queue never run into the records of another, nor back into its own.
THEOREM QueuesExactHolds == ASSUME WalksReach PROVE Spec => []QueuesExact
<1>1. ChainsInv /\ [Next]_vars => ChainsInv'
  BY ChainsStep
<1>2. ChainsInv => QueuesExact
  BY ChainSpells, RpcAssumption DEF ChainsInv, ListsApart, ServerChains, QueueChain, QueuesExact
<1> QED
  BY <1>1, <1>2, ChainsStart, PTL DEF Spec
================================================================================
