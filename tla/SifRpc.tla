--------------------------------- MODULE SifRpc ---------------------------------
(* Remote procedure calls of the game to the IOP (Syscalls/RPC.cpp): the table of
   servers and clients, the queues of servers in guest memory, and calls, which run the
   server and the end function as invocations of the calling thread.

   The game keeps to the rules of its library: SifInitRpc comes first; a client is
   called only once it is bound, and bound or called only when SifCheckStatRpc says it
   is free; a server record goes into a queue it is not in yet, or is registered again
   where it already stands last. The code relies on the first two and checks neither: a
   call marks its client busy without a look at the flag, and makes an entry with no sid
   for a client never bound. SifCheckStatRpc and the call after it are two calls of the
   game and one step here: no two threads share a client and both find it free.
   What a call carries, and the semaphore it may signal, is left out. *)
EXTENDS IopRoutes, Sequences, FiniteSets, SequencesExt

CONSTANTS
    Threads, Clients, Queues,
    Records,      \* server records of the game
    Runs,         \* those with a server function the program has
    PoolSlots,    \* kRpcServerPoolCount: placeholders 0 .. PoolSlots - 1
    Answers,      \* Answers[s]: what service s may answer, as records like Unhandled
    NULL,
    MaxWalk,      \* the length of a walk along a chain: 1024
    MaxNesting    \* bounds the calls of a model inside each other

ASSUME RpcAssumption ==
    /\ Runs \subseteq Records
    /\ Cardinality(Sids) <= PoolSlots /\ PoolSlots \in Nat \ {0}
    /\ NULL \notin Records \cup Queues \cup Nat
    /\ \A sid \in Sids, b \in BOOLEAN : None # [sid |-> sid, busy |-> b]
    /\ MaxWalk \in Nat /\ MaxNesting \in Nat

VARIABLES
    initialized,  \* g_rpc_initialized
    servers,      \* g_rpc_servers: per sid the address of a record, or NULL
    nextSlot,     \* g_rpc_server_index
    clients,      \* g_rpc_clients: per client its sid and whether it is busy, or None
    server,       \* client->server
    first,        \* queue->link
    link,         \* sd->link
    active,       \* g_rpc_active_queue
    next,         \* queue->next
    stack,        \* per thread the calls it is in, outermost first
    listed,       \* what the game registered on each queue and did not remove, in order
    enlisted      \* the queues it set and did not remove, in order

tableVars == <<servers, nextSlot, clients, server>>
chainVars == <<first, link, active, next, listed, enlisted>>
rpcVars == <<initialized, tableVars, chainVars, stack>>
vars == <<iopVars, rpcVars>>

Ready == initialized /\ UNCHANGED <<initialized, iopVars>>

Bound(c) == clients[c] # None
\* SifCheckStatRpc
Busy(c) == Bound(c) /\ clients[c].busy

--------------------------------------------------------------------------------
(* SifInitRpc, SifBindRpc and SifRegisterRpc: the tables *)

\* The program loads one ELF, and stops when its profile is refused.
SifInitRpc ==
    /\ outcome = "ok" /\ made = 1
    /\ initialized' = TRUE
    /\ \/ initialized /\ UNCHANGED <<tableVars, active, enlisted>>
       \/ /\ ~initialized
          /\ servers' = [sid \in Sids |-> NULL] /\ clients' = [c \in Clients |-> None]
          /\ nextSlot' = 0 /\ active' = NULL /\ enlisted' = <<>>
          /\ UNCHANGED server
    /\ UNCHANGED <<iopVars, first, link, next, stack, listed>>

\* A sid nobody registered gets a placeholder.
SifBindRpc(c, sid) ==
    /\ Ready /\ ~Busy(c)
    /\ clients' = [clients EXCEPT ![c] = [sid |-> sid, busy |-> FALSE]]
    /\ \/ /\ servers[sid] # NULL
          /\ server' = [server EXCEPT ![c] = servers[sid]]
          /\ UNCHANGED <<servers, nextSlot>>
       \/ /\ servers[sid] = NULL
          /\ server' = [server EXCEPT ![c] = nextSlot % PoolSlots]
          /\ servers' = [servers EXCEPT ![sid] = nextSlot % PoolSlots]
          /\ nextSlot' = nextSlot + 1
    /\ UNCHANGED <<chainVars, stack>>

\* Mutant: clients that were bound before keep the server they have.
NotRemapped(sid, sd) == server

\* The clients of sid are given sd for their server.
Remapped(sid, sd) ==
    [c \in Clients |-> IF Bound(c) /\ clients[c].sid = sid THEN sd ELSE server[c]]

--------------------------------------------------------------------------------
(* The chains in guest memory. A walk goes from record to record. *)

\* What is met along step from head on, and NULL from its end on.
Walk(head, step) ==
    LET at[n \in Nat] ==
            IF n = 0 THEN head ELSE IF at[n - 1] = NULL THEN NULL ELSE step[at[n - 1]]
    IN at

\* The first place of a walk where Stop holds.
FirstPlace(N) == CHOOSE n \in N : \A m \in N : n <= m

\* Mutant: a record that stands last already is put behind itself.
AttachedAgain(head, sd) ==
    LET bare == [link EXCEPT ![sd] = NULL]
        at == Walk(head, bare)
        ends == {n \in 0 .. MaxWalk - 1 : at[n] # NULL /\ bare[at[n]] = NULL}
    IN IF ends = {} THEN bare ELSE [bare EXCEPT ![at[FirstPlace(ends)]] = sd]

\* sd is put at the end of the chain from head, unless it is there.
Attached(head, sd) ==
    LET bare == [link EXCEPT ![sd] = NULL]
        at == Walk(head, bare)
        ends == {n \in 0 .. MaxWalk - 1 : at[n] # NULL /\ bare[at[n]] \in {NULL, sd}}
    IN IF ends = {} THEN bare ELSE [bare EXCEPT ![at[FirstPlace(ends)]] = sd]

\* q is put at the end of the active queues, unless it is one of them.
Enlisted(q) ==
    LET bare == [next EXCEPT ![q] = NULL]
        at == Walk(active, bare)
        ends == {n \in 0 .. MaxWalk - 1 : at[n] # NULL /\ (at[n] = q \/ bare[at[n]] = NULL)}
        end == at[FirstPlace(ends)]
    IN IF ends = {} \/ end = q THEN bare ELSE [bare EXCEPT ![end] = q]

\* The one before x, if x is met, is linked to the one behind x.
Bypassed(head, step, x) ==
    LET at == Walk(head, step)
        before == {n \in 0 .. MaxWalk - 1 : at[n] # NULL /\ step[at[n]] = x}
    IN IF before = {} THEN step ELSE [step EXCEPT ![at[FirstPlace(before)]] = step[x]]

OnChain(head, step, x) == \E n \in 0 .. MaxWalk : Walk(head, step)[n] = x

In(x, s) == \E n \in 1 .. Len(s) : s[n] = x
LastOfMany(x, s) == Len(s) > 1 /\ s[Len(s)] = x
With(s, x) == IF In(x, s) THEN s ELSE Append(s, x)

SifRegisterRpc(sd, sid) ==
    /\ Ready
    /\ servers' = [servers EXCEPT ![sid] = sd]
    /\ server' = Remapped(sid, sd)
    /\ \/ /\ \A q \in Queues : ~In(sd, listed[q])
          /\ link' = [link EXCEPT ![sd] = NULL]
          /\ UNCHANGED <<first, listed>>
       \/ \E q \in Queues :
          /\ LastOfMany(sd, listed[q]) \/ \A r \in Queues : ~In(sd, listed[r])
          /\ \/ /\ first[q] = NULL
                /\ first' = [first EXCEPT ![q] = sd]
                /\ link' = [link EXCEPT ![sd] = NULL]
             \/ first[q] # NULL /\ link' = Attached(first[q], sd) /\ UNCHANGED first
          /\ listed' = [listed EXCEPT ![q] = With(@, sd)]
    /\ UNCHANGED <<nextSlot, clients, active, next, enlisted, stack>>

\* The tables keep the record: its sid and the clients bound to it stay.
SifRemoveRpc(sd, q) ==
    /\ Ready
    /\ \/ /\ first[q] = sd
          /\ first' = [first EXCEPT ![q] = link[sd]]
          /\ link' = [link EXCEPT ![sd] = NULL]
       \/ /\ first[q] # sd /\ OnChain(first[q], link, sd)
          /\ link' = [Bypassed(first[q], link, sd) EXCEPT ![sd] = NULL]
          /\ UNCHANGED first
       \/ ~OnChain(first[q], link, sd) /\ UNCHANGED <<first, link>>
    /\ listed' = [listed EXCEPT ![q] = RemoveFirst(@, sd)]
    /\ UNCHANGED <<tableVars, active, next, enlisted, stack>>

\* A queue that is set again loses its servers.
SifSetRpcQueue(q) ==
    /\ Ready
    /\ In(q, enlisted) => enlisted[Len(enlisted)] = q
    /\ first' = [first EXCEPT ![q] = NULL]
    /\ \/ active = NULL /\ active' = q /\ next' = [next EXCEPT ![q] = NULL]
       \/ active # NULL /\ next' = Enlisted(q) /\ UNCHANGED active
    /\ listed' = [listed EXCEPT ![q] = <<>>]
    /\ enlisted' = With(enlisted, q)
    /\ UNCHANGED <<tableVars, link, stack>>

SifRemoveRpcQueue(q) ==
    /\ Ready
    /\ \/ active = q /\ active' = next[q] /\ UNCHANGED next
       \/ active # q /\ next' = Bypassed(active, next, q) /\ UNCHANGED active
    /\ enlisted' = RemoveFirst(enlisted, q)
    /\ UNCHANGED <<tableVars, first, link, listed, stack>>

--------------------------------------------------------------------------------
(* SifCallRpc: the server function, if any, then the end function, if any, and then
   the client is free again. Each is an invocation on the stack of the thread. *)

Calls == UNION {{stack[t][n] : n \in 1 .. Len(stack[t])} : t \in Threads}

\* A call no service answers: the server function of the record runs, and the end function.
Unhandled == [dispatch |-> FALSE, suppressServer |-> FALSE, suppressCallback |-> FALSE]

AnswersTo(sid) == IF routes[sid] = None THEN {Unhandled} ELSE Answers[routes[sid].service]

Top(t) == stack[t][Len(stack[t])]
Below(t) == SubSeq(stack[t], 1, Len(stack[t]) - 1)

\* completeClient
Freed(table, c) == [table EXCEPT ![c].busy = FALSE]

InCallback(c) == [client |-> c, phase |-> "callback", back |-> TRUE]

\* Mutant: the client is free before its end function has run.
FinishFreeing(t, calls, table, c, back) ==
    /\ stack' = [stack EXCEPT ![t] = IF back THEN Append(calls, InCallback(c)) ELSE calls]
    /\ clients' = Freed(table, c)

\* finishCall of a call on c: back says whether there is an end function to run.
Finish(t, calls, table, c, back) ==
    /\ stack' = [stack EXCEPT ![t] = IF back THEN Append(calls, InCallback(c)) ELSE calls]
    /\ clients' = IF back THEN table ELSE Freed(table, c)

\* end: the caller named an end function that the program has.
SifCallRpc(t, c, end) ==
    /\ Ready /\ Bound(c) /\ ~Busy(c) /\ Len(stack[t]) < MaxNesting
    /\ LET sid == clients[c].sid
           sd == IF servers[sid] # NULL THEN servers[sid] ELSE server[c]
           busy == [clients EXCEPT ![c].busy = TRUE]
       IN /\ server' = [server EXCEPT ![c] = sd]
          /\ \E a \in AnswersTo(sid) :
             LET back == end /\ ~a.suppressCallback IN
             \/ /\ a.dispatch \/ (sd \in Runs /\ ~a.suppressServer)
                /\ stack' = [stack EXCEPT ![t] =
                        Append(@, [client |-> c, phase |-> "server", back |-> back])]
                /\ clients' = busy
             \/ /\ ~a.dispatch /\ (sd \notin Runs \/ a.suppressServer)
                /\ Finish(t, stack[t], busy, c, back)
    /\ UNCHANGED <<servers, nextSlot, chainVars>>

ServerReturns(t) ==
    /\ Ready /\ stack[t] # <<>> /\ Top(t).phase = "server"
    /\ Finish(t, Below(t), clients, Top(t).client, Top(t).back)
    /\ UNCHANGED <<servers, nextSlot, server, chainVars>>

CallbackReturns(t) ==
    /\ Ready /\ stack[t] # <<>> /\ Top(t).phase = "callback"
    /\ Finish(t, Below(t), clients, Top(t).client, FALSE)
    /\ UNCHANGED <<servers, nextSlot, server, chainVars>>

\* The thread is terminated, or exits, inside its calls: nothing completes them, and
\* their clients stay busy.
ThreadEnds(t) ==
    /\ Ready /\ stack[t] # <<>>
    /\ stack' = [stack EXCEPT ![t] = <<>>]
    /\ UNCHANGED <<tableVars, chainVars>>

--------------------------------------------------------------------------------
Init ==
    /\ IopInit
    /\ initialized = FALSE
    /\ servers = [sid \in Sids |-> NULL] /\ nextSlot = 0
    /\ clients = [c \in Clients |-> None] /\ server = [c \in Clients |-> NULL]
    /\ first = [q \in Queues |-> NULL] /\ link = [sd \in Records |-> NULL]
    /\ active = NULL /\ next = [q \in Queues |-> NULL]
    /\ stack = [t \in Threads |-> <<>>]
    /\ listed = [q \in Queues |-> <<>>] /\ enlisted = <<>>

Tables ==
    \/ SifInitRpc
    \/ \E c \in Clients, sid \in Sids : SifBindRpc(c, sid)
    \/ \E sd \in Records, sid \in Sids : SifRegisterRpc(sd, sid)
    \/ \E sd \in Records, q \in Queues : SifRemoveRpc(sd, q)
    \/ \E q \in Queues : SifSetRpcQueue(q) \/ SifRemoveRpcQueue(q)

Calling ==
    \E t \in Threads :
        \/ \E c \in Clients, end \in BOOLEAN : SifCallRpc(t, c, end)
        \/ ServerReturns(t) \/ CallbackReturns(t) \/ ThreadEnds(t)

Next ==
    \/ ~initialized /\ IopNext /\ UNCHANGED rpcVars
    \/ Tables
    \/ Calling

Spec == Init /\ [][Next]_vars

--------------------------------------------------------------------------------
\* Whoever comes first, the game's bind or the server's registration: a bound client
\* has the server its sid stands for now, and never a stale placeholder or none.
ClientsFollowServers ==
    \A c \in Clients : Bound(c) =>
        servers[clients[c].sid] # NULL /\ server[c] = servers[clients[c].sid]

\* The chains in guest memory are what was registered, in order, with an end.
Spells(head, step, s) ==
    \A n \in 0 .. Len(s) : Walk(head, step)[n] = IF n < Len(s) THEN s[n + 1] ELSE NULL

QueuesExact ==
    /\ Spells(active, next, enlisted)
    /\ \A q \in Queues : Spells(first[q], link, listed[q])

\* A game that polls SifCheckStatRpc never has two calls of one client under way, on any
\* thread and in any nest, and a client that is free has no call left to finish.
OneCallPerClient ==
    /\ \A k \in Calls : Busy(k.client)
    /\ \A t, u \in Threads :
        \A m \in 1 .. Len(stack[t]), n \in 1 .. Len(stack[u]) :
            stack[t][m].client = stack[u][n].client => t = u /\ m = n
================================================================================
