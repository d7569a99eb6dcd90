----------------------------- MODULE CryptoIpc -----------------------------
(***************************************************************************)
(* Requests from the control plane to the crypto process and the checks    *)
(* they pass, rust-core/src/omega/crypto_process.rs.  The two planes share *)
(* a stream of frames that may be cut short, delayed or lost, and a caller *)
(* that gets no answer sends its request again.  A payload is the request; *)
(* the keyed digest of an operation is the pair of key and operation, and  *)
(* both planes hold the same key unless the other one was restarted.       *)
(***************************************************************************)
EXTENDS Naturals, Sequences, FiniteSets

CONSTANTS
    Ops,            \* operations, CryptoOp
    IdWord,         \* last_request_id is taken modulo this; 2^64 in the code
    MaxRequests,    \* bound: requests built
    MaxSends,       \* bound: frames sent
    MaxKeys,        \* bound: session keys
    MaxMs           \* bound: the last millisecond

CryptoIpcAssumption == IdWord \in Nat \ {0} /\ MaxMs \in Nat /\ MaxKeys \in Nat \ {0}

Ms == 0..MaxMs

VARIABLES
    controlKey, dataKey,    \* the session key of either plane
    built,                  \* the requests built, in order
    wire,                   \* frames on their way
    sends,                  \* how many there have been
    served,                 \* what the data plane verified, in order
    ms                      \* unix_ms_now

ipcVars == <<controlKey, dataKey, built, wire, sends, served, ms>>

IpcInit ==
    /\ controlKey = 1 /\ dataKey = 1
    /\ built = <<>> /\ wire = {} /\ sends = 0 /\ served = <<>> /\ ms = 0

\* sign
Sign(key, op) == <<key, op>>

\* build_request; the nonce is a number nobody drew before.
BuildRequest(op, ttl) ==
    /\ Len(built) < MaxRequests
    /\ built' = Append(built,
           [request_id |-> (Len(built) + 1) % IdWord, nonce |-> Len(built) + 1,
            deadline |-> ms + ttl, op |-> op, hmac |-> Sign(controlKey, op)])
    /\ UNCHANGED <<controlKey, dataKey, wire, sends, served, ms>>

\* encode_frame, and the write to the socket, which may be cut short.
Send(i, whole) ==
    /\ sends < MaxSends
    /\ sends' = sends + 1
    /\ wire' = wire \cup {[at |-> sends', request |-> built[i], whole |-> whole]}
    /\ UNCHANGED <<controlKey, dataKey, built, served, ms>>

Lose(f) ==
    /\ wire' = wire \ {f}
    /\ UNCHANGED <<controlKey, dataKey, built, sends, served, ms>>

\* decode_frame takes a frame only when all its bytes are there.
DecodeFrame(f) == f.whole

VerifyRequest(r) ==
    /\ r.hmac = Sign(dataKey, r.op)
    /\ ms <= r.deadline

\* Mutant of Deliver: a request that failed its check is served.
DeliverAny(f) ==
    /\ wire' = wire \ {f}
    /\ served' = IF DecodeFrame(f)
                 THEN Append(served, [request |-> f.request, at |-> ms, key |-> dataKey]) ELSE served
    /\ UNCHANGED <<controlKey, dataKey, built, sends, ms>>

Deliver(f) ==
    /\ wire' = wire \ {f}
    /\ served' = IF DecodeFrame(f) /\ VerifyRequest(f.request)
                 THEN Append(served, [request |-> f.request, at |-> ms, key |-> dataKey]) ELSE served
    /\ UNCHANGED <<controlKey, dataKey, built, sends, ms>>

\* IpcSession::new with a new key, in one plane and then in the other; what is
\* on the wire stays there.
RestartData ==
    /\ dataKey = controlKey
    /\ dataKey < MaxKeys
    /\ dataKey' = dataKey + 1
    /\ UNCHANGED <<controlKey, built, wire, sends, served, ms>>

RestartControl ==
    /\ controlKey < dataKey
    /\ controlKey' = dataKey
    /\ UNCHANGED <<dataKey, built, wire, sends, served, ms>>

IpcTick ==
    /\ ms < MaxMs
    /\ ms' = ms + 1
    /\ UNCHANGED <<controlKey, dataKey, built, wire, sends, served>>

IpcNext ==
    \/ \E op \in Ops, ttl \in 0..1 : BuildRequest(op, ttl)
    \/ \E i \in DOMAIN built, whole \in BOOLEAN : Send(i, whole)
    \/ \E f \in wire : Lose(f) \/ Deliver(f)
    \/ RestartData
    \/ RestartControl
    \/ IpcTick

IpcSpec == IpcInit /\ [][IpcNext]_ipcVars

-----------------------------------------------------------------------------
\* However frames were delayed, cut, repeated or overtaken by a restart, what
\* the data plane served is a request the control plane built under the very
\* session key it was checked with, and it was not late ("If the data plane
\* receives the request after this time, it returns an error",
\* crypto_process.rs).
ServedInTime ==
    \A k \in DOMAIN served :
        /\ served[k].at <= served[k].request.deadline
        /\ \E i \in DOMAIN built : built[i] = served[k].request
        /\ served[k].request.hmac[1] = served[k].key

\* A request is served once ("The data plane rejects duplicate or expired
\* requests", crypto_process.rs).
ServedOnce ==
    \A j, k \in DOMAIN served :
        served[j].request.nonce = served[k].request.nonce => j = k

=============================================================================
