---------------------------- MODULE MemoryPorts -----------------------------
(***************************************************************************)
(* What a memory with several request ports promises its users: a request  *)
(* is answered once, by one atomic access to the store at some moment      *)
(* between the request and its acknowledge, and at most one port is        *)
(* answered at a time.  No timing, no banks, no rows, no refresh.          *)
(***************************************************************************)
EXTENDS Naturals, Sequences

CONSTANTS
    Ports,      \* the request ports
    WritePorts, \* those that write
    AnyRequest, \* the payloads a port can carry
    Requests,   \* port -> the requests it may make
    Span(_, _), \* port, request -> the sequence of cells it names
    Merge(_, _),\* old cell value, request -> new cell value
    Cells, InitStore

VARIABLES status, request, result, store
memVars == <<status, request, result, store>>

MemInit ==
    /\ status  = [p \in Ports |-> "idle"]
    /\ request \in [Ports -> AnyRequest]
    /\ result  = [p \in Ports |-> <<>>]
    /\ store   = InitStore

Stay(p) ==
    /\ status'[p] = status[p] /\ request'[p] = request[p]
    /\ result'[p] = result[p]

\* A new request, possibly on the edge that takes the answer of the last one.
Ask(p) ==
    /\ status[p] \in {"idle", "done"} /\ status'[p] = "waiting"
    /\ request'[p] \in Requests[p]
    /\ result'[p] = <<>>

Take(p) ==
    /\ status[p] = "done" /\ status'[p] = "idle"
    /\ request'[p] = request[p] /\ result'[p] = <<>>

\* The answer to a read is the contents of the cells it names, now.
Answer(p) ==
    /\ status[p] = "waiting" /\ status'[p] = "done"
    /\ request'[p] = request[p]
    /\ result'[p] = IF p \in WritePorts THEN <<>>
                    ELSE [i \in 1 .. Len(Span(p, request[p])) |->
                            store[Span(p, request[p])[i]]]

\* The store after the write p asks for.
Stored(p) ==
    [c \in Cells |-> IF \E i \in 1 .. Len(Span(p, request[p])) : Span(p, request[p])[i] = c
                     THEN Merge(store[c], request[p]) ELSE store[c]]

Step ==
    \E answered \in {{}} \cup {{p} : p \in Ports} :
        /\ \A p \in answered : Answer(p)
        /\ \A p \in Ports \ answered : Stay(p) \/ Ask(p) \/ Take(p)
        /\ store' = IF answered \cap WritePorts = {} THEN store
                    ELSE Stored(CHOOSE p \in answered : TRUE)

\* Power fails: every request is forgotten; a write on its way may still land.
Forget ==
    /\ \A p \in Ports : status'[p] = "idle" /\ result'[p] = <<>>
    /\ \/ store' = store
       \/ \E p \in WritePorts : status[p] = "waiting" /\ store' = Stored(p)

MemNext == Step \/ Forget
MemSpec == MemInit /\ [][MemNext]_memVars
=============================================================================
