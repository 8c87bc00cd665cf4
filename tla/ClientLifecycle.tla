---------------------------- MODULE ClientLifecycle ----------------------------
(***************************************************************************)
(* Making and closing clients (client.go): Dial opens a connection of its  *)
(* own, New wraps one the caller has opened, and Close closes only what    *)
(* Dial opened.  Both take their limits from newClientConfig, on whose     *)
(* result the retry, batch and scan loops of the other modules rest.       *)
(*                                                                         *)
(* The call options of gRPC (codec, message sizes), its credentials and    *)
(* the precedence of its dial options are not modelled.                    *)
(***************************************************************************)
EXTENDS RetryPolicy

CONSTANTS
    Clients,               \* names for *Client values
    Conns,                 \* names for connections
    None,                  \* a nil connection
    Options,               \* the ClientOptions that callers pass
    Intervals,             \* the DNSRefreshIntervals that callers pass
    DefaultMaxOperations,  \* defaultMaxOperations
    DefaultScanTimeout,    \* defaultScanTimeout
    DefaultMessageBytes,   \* defaultMaxMessageBytes
    DefaultInterval        \* defaultDNSRefreshInterval

ClientOptions ==
    [MaxOperations : Int, ReadRetry : RetryPolicies, ScanRetry : RetryPolicies,
     ScanTimeout : Int, MaxReceiveMessageBytes : Int, MaxSendMessageBytes : Int]

ASSUME ClientAssumption ==
    /\ None \notin Conns
    /\ Options \subseteq ClientOptions /\ Intervals \subseteq Int
    /\ DefaultMaxOperations \in Nat \ {0} /\ DefaultScanTimeout \in Nat \ {0}
    /\ DefaultMessageBytes \in Nat \ {0} /\ DefaultInterval \in Nat \ {0}

VARIABLES
    conn,    \* per connection: "absent", "open" or "closed"
    maker,   \* per connection: who opened it, "nobody", "caller" or "Dial"
    closer,  \* per connection: who closed it, "nobody", "caller" or "client"
    client,  \* per name: the client, or NoClient
    err      \* the last call returned an error

clientVars == <<conn, maker, closer, client, err>>

\* rpc is the connection a client uses, connection the one it owns.
Client(rpc, connection, config, interval) ==
    [rpc |-> rpc, connection |-> connection, config |-> config, interval |-> interval]

ZeroConfig ==
    [maxOperations |-> 0, readRetry |-> WithDefaults(ZeroPolicy),
     scanRetry |-> WithDefaults(ZeroPolicy), scanTimeout |-> 0,
     maxReceiveBytes |-> 0, maxSendBytes |-> 0]

NoClient == Client(None, None, ZeroConfig, 0)

ClientInit ==
    /\ conn = [c \in Conns |-> "absent"]
    /\ maker = [c \in Conns |-> "nobody"]
    /\ closer = [c \in Conns |-> "nobody"]
    /\ client = [k \in Clients |-> NoClient]
    /\ err = FALSE

-------------------------------------------------------------------------------

\* The options that newClientConfig takes.
ConfigAccepted(o) ==
    /\ o.MaxOperations >= 0 /\ o.ScanTimeout >= 0
    /\ o.MaxReceiveMessageBytes >= 0 /\ o.MaxSendMessageBytes >= 0
    /\ Accepted(o.ReadRetry) /\ Accepted(o.ScanRetry)

\* Faulty variant: the scan policy is used as it was given.
newClientConfigRawScan(o) ==
    [maxOperations   |-> OrDefault(o.MaxOperations, DefaultMaxOperations),
     readRetry       |-> WithDefaults(o.ReadRetry),
     scanRetry       |-> o.ScanRetry,
     scanTimeout     |-> OrDefault(o.ScanTimeout, DefaultScanTimeout),
     maxReceiveBytes |-> OrDefault(o.MaxReceiveMessageBytes, DefaultMessageBytes),
     maxSendBytes    |-> OrDefault(o.MaxSendMessageBytes, DefaultMessageBytes)]

newClientConfig(o) ==
    [maxOperations   |-> OrDefault(o.MaxOperations, DefaultMaxOperations),
     readRetry       |-> WithDefaults(o.ReadRetry),
     scanRetry       |-> WithDefaults(o.ScanRetry),
     scanTimeout     |-> OrDefault(o.ScanTimeout, DefaultScanTimeout),
     maxReceiveBytes |-> OrDefault(o.MaxReceiveMessageBytes, DefaultMessageBytes),
     maxSendBytes    |-> OrDefault(o.MaxSendMessageBytes, DefaultMessageBytes)]

\* The caller opens a connection for New, and may close it at any time.
CallerConnects(c) ==
    /\ conn[c] = "absent"
    /\ conn' = [conn EXCEPT ![c] = "open"]
    /\ maker' = [maker EXCEPT ![c] = "caller"]
    /\ UNCHANGED <<closer, client, err>>

CallerDisconnects(c) ==
    /\ maker[c] = "caller" /\ conn[c] = "open"
    /\ conn' = [conn EXCEPT ![c] = "closed"]
    /\ closer' = [closer EXCEPT ![c] = "caller"]
    /\ UNCHANGED <<maker, client, err>>

\* An empty target, a negative interval, or grpc.NewClient fails: nothing was
\* opened.
DialRefused ==
    /\ err' = TRUE
    /\ UNCHANGED <<conn, maker, closer, client>>

\* Dial opens a connection, the options are accepted, and the client owns it.
Dial(k, c, o, interval) ==
    /\ client[k] = NoClient /\ conn[c] = "absent"
    /\ interval >= 0 /\ ConfigAccepted(o)
    /\ conn' = [conn EXCEPT ![c] = "open"]
    /\ maker' = [maker EXCEPT ![c] = "Dial"]
    /\ client' = [client EXCEPT
                    ![k] = Client(c, c, newClientConfig(o),
                                  OrDefault(interval, DefaultInterval))]
    /\ err' = FALSE
    /\ UNCHANGED closer

\* Faulty variant: Dial returns the error of New at once.
DialFailsOpen(c, o, interval) ==
    /\ conn[c] = "absent"
    /\ interval >= 0 /\ ~ConfigAccepted(o)
    /\ conn' = [conn EXCEPT ![c] = "open"]
    /\ maker' = [maker EXCEPT ![c] = "Dial"]
    /\ err' = TRUE
    /\ UNCHANGED <<closer, client>>

\* Dial opens a connection, New refuses the options, and it is closed again.
DialFails(c, o, interval) ==
    /\ conn[c] = "absent"
    /\ interval >= 0 /\ ~ConfigAccepted(o)
    /\ conn' = [conn EXCEPT ![c] = "closed"]
    /\ maker' = [maker EXCEPT ![c] = "Dial"]
    /\ closer' = [closer EXCEPT ![c] = "client"]
    /\ err' = TRUE
    /\ UNCHANGED client

\* Faulty variant: the client owns whatever connection it was given.
NewOwning(k, c, o) ==
    /\ client[k] = NoClient /\ maker[c] = "caller"
    /\ ConfigAccepted(o)
    /\ client' = [client EXCEPT ![k] = Client(c, c, newClientConfig(o), DefaultInterval)]
    /\ err' = FALSE
    /\ UNCHANGED <<conn, maker, closer>>

\* New wraps a connection of the caller, open or not, and does not own it.
New(k, c, o) ==
    /\ client[k] = NoClient /\ maker[c] = "caller"
    /\ ConfigAccepted(o)
    /\ client' = [client EXCEPT ![k] = Client(c, None, newClientConfig(o), 0)]
    /\ err' = FALSE
    /\ UNCHANGED <<conn, maker, closer>>

\* New refuses a nil connection or the options.
NewRefused(o) ==
    /\ ~ConfigAccepted(o)
    /\ err' = TRUE
    /\ UNCHANGED <<conn, maker, closer, client>>

\* Close does nothing without a connection of its own; a second Close gets the
\* error of the closed connection.
Close(k) ==
    /\ client[k] # NoClient
    /\ \/ /\ client[k].connection = None
          /\ err' = FALSE
          /\ UNCHANGED <<conn, closer>>
       \/ /\ client[k].connection # None
          /\ err' = (conn[client[k].connection] = "closed")
          /\ conn' = [conn EXCEPT ![client[k].connection] = "closed"]
          /\ closer' = [closer EXCEPT ![client[k].connection] = "client"]
    /\ UNCHANGED <<maker, client>>

ClientNext ==
    \/ DialRefused
    \/ \E o \in Options : NewRefused(o)
    \/ \E c \in Conns :
          \/ CallerConnects(c) \/ CallerDisconnects(c)
          \/ \E o \in Options, interval \in Intervals : DialFails(c, o, interval)
    \/ \E k \in Clients, c \in Conns, o \in Options :
          New(k, c, o) \/ \E interval \in Intervals : Dial(k, c, o, interval)
    \/ \E k \in Clients : Close(k)

ClientSpec == ClientInit /\ [][ClientNext]_clientVars

-------------------------------------------------------------------------------
(***************************************************************************)
(* Correctness.                                                            *)
(***************************************************************************)

\* No connection leaks: one that Dial opened is closed, or a client owns it
\* whose Close will close it.  A Dial that fails after opening it has closed it.
NoLeak ==
    \A c \in Conns :
        maker[c] = "Dial" /\ conn[c] = "open" =>
            \E k \in Clients : client[k].connection = c

\* Close never takes a connection away from someone else: what the caller
\* opened only the caller closes, although any number of clients use it, and no
\* two clients own the same connection.
OwnershipKept ==
    /\ \A c \in Conns : closer[c] = "client" => maker[c] = "Dial"
    /\ \A j, k \in Clients :
          client[j].connection = client[k].connection /\ j # k =>
              client[j].connection = None

\* A configuration whose loops can run: batches have room for an operation,
\* a retry loop for an attempt, a scan has time, a message has room, and a
\* policy passes its own checks again.
Usable(config) ==
    /\ config.maxOperations >= 1 /\ config.scanTimeout >= 1
    /\ config.maxReceiveBytes >= 1 /\ config.maxSendBytes >= 1
    /\ \A p \in {config.readRetry, config.scanRetry} :
          p.MaxAttempts >= 1 /\ p.InitialBackoff >= 1 /\ Accepted(p)

\* Whatever mix of given, zero and refused fields the caller passed, a client
\* that exists has a usable configuration, and the resolver of a dialled one an
\* interval: newClientConfig gives what the batch, retry and scan loops assume.
ClientsUsable ==
    \A k \in Clients :
        client[k] # NoClient =>
            /\ Usable(client[k].config)
            /\ client[k].connection # None => client[k].interval >= 1

================================================================================
