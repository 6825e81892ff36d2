------------------------------ MODULE Session ------------------------------
(***************************************************************************)
(* Dispatch of requests over the tool router: konnect-core/src/mcp/        *)
(* handler.rs and router/mod.rs.  Several clients load and unload tools of *)
(* one shared catalogue while others call tools; whoever changes the       *)
(* catalogue notifies every client that listens, through a channel of      *)
(* bounded size, and the clients list the tools again.                     *)
(***************************************************************************)
EXTENDS Integers, Sequences, FiniteSets

CONSTANTS
    Clients,      \* connections, each with one request at a time and one stream of notifications
    Toolsets, Tools,
    ToolsOf,      \* ToolsOf[ts]: the tools of toolset ts; no tool is in two
    Starter, StarterTools,  \* what load_starter_kit loads
    Allowed,      \* the tools the operating mode admits; it is fixed when the server starts
    AutoLoad,     \* auto_load_toolsets
    Requests,     \* what the clients may ask; names that do not exist among them
    NoRequest,
    Buffer,       \* room for notifications on a stream
    MaxRequests, MaxDrops   \* bounds: requests asked, connections that break in the middle of one

ASSUME ToolsetsAssumption ==
    /\ ToolsOf \in [Toolsets -> SUBSET Tools]
    /\ \A ts, us \in Toolsets : ts # us => ToolsOf[ts] \cap ToolsOf[us] = {}
    /\ Starter \subseteq Toolsets /\ StarterTools \subseteq UNION {ToolsOf[ts] : ts \in Toolsets}
ASSUME RequestsAssumption ==
    /\ Requests \subseteq [kind : {"load_toolset", "load_tools", "unload_toolset", "call"}, names : Seq(STRING)]
    /\ NoRequest \notin Requests
ASSUME SessionBoundsAssumption == Buffer \in Nat \ {0} /\ {MaxRequests, MaxDrops} \subseteq Nat /\ AutoLoad \in BOOLEAN

VARIABLES
    active,       \* the toolsets marked active
    loaded,       \* the tools of tools/list, which may be called
    call,         \* call[c]: the request of client c the server is at
    stream,       \* stream[c]: is the server's end of c's stream still there
    queue,        \* queue[c]: notifications c has not read yet
    relist,       \* relist[c]: c knows that it has to list the tools again
    shown,        \* shown[c]: the tools as c listed them last
    asked, drops, \* how many requests were asked, and connections broken
    unannounced   \* the catalogue changed and whoever changed it went away before saying so

routerVars == <<active, loaded>>
clientVars == <<stream, queue, relist, shown>>
sessionVars == <<active, loaded, call, stream, queue, relist, shown, asked, drops, unannounced>>

\* rest: the names still to look at; changed: the catalogue was changed;
\* again: the toolset of the called tool was loaded for it.
Calls == [at : {"idle", "names", "notify", "lookup", "autoload", "gate", "run"}, req : Requests \cup {NoRequest},
          rest : Seq(STRING), changed : BOOLEAN, again : BOOLEAN]

Rest == [at |-> "idle", req |-> NoRequest, rest |-> <<>>, changed |-> FALSE, again |-> FALSE]

SessionInit ==
    /\ active = Starter
    /\ loaded = (UNION {ToolsOf[ts] : ts \in Starter}) \cup StarterTools
    /\ call = [c \in Clients |-> Rest]
    /\ stream = [c \in Clients |-> TRUE] /\ queue = [c \in Clients |-> 0]
    /\ relist = [c \in Clients |-> TRUE] /\ shown = [c \in Clients |-> {}]
    /\ asked = 0 /\ drops = 0 /\ unannounced = FALSE

\* find_toolset_for_tool
Owners(t) == {ts \in Toolsets : t \in ToolsOf[ts]}

Ask(c, r) ==
    /\ call[c].at = "idle" /\ asked < MaxRequests
    /\ asked' = asked + 1
    /\ call' = [call EXCEPT ![c] = [Rest EXCEPT !.req = r, !.rest = r.names,
                                    !.at = IF r.kind = "call" THEN "lookup" ELSE "names"]]
    /\ UNCHANGED <<routerVars, clientVars, drops, unannounced>>

\* One name done; a change is remembered.
NextName(c, changed) ==
    call' = [call EXCEPT ![c].rest = Tail(@), ![c].changed = @ \/ changed]

\* load: the toolset and its tools, under both locks of the router.
Load(ts) ==
    /\ active' = active \cup {ts}
    /\ loaded' = loaded \cup ToolsOf[ts]

\* A fault to detect: the toolset stays active.
UnloadTools(ts) ==
    /\ active' = active
    /\ loaded' = loaded \ ToolsOf[ts]

\* unload: the toolset and all its tools, those loaded one by one included.
Unload(ts) ==
    /\ active' = active \ {ts}
    /\ loaded' = loaded \ ToolsOf[ts]

\* One name of load_toolset, load_tools or unload_toolset; a name that does not
\* exist is reported and skipped.
Name(c) ==
    LET n == Head(call[c].rest)
        kind == call[c].req.kind
    IN  /\ call[c].at = "names" /\ call[c].rest # <<>>
        /\ \/ kind = "load_toolset" /\ n \in Toolsets /\ Load(n) /\ NextName(c, TRUE)
           \/ kind = "unload_toolset" /\ n \in Toolsets /\ Unload(n) /\ NextName(c, TRUE)
           \/ /\ kind = "load_tools" /\ Owners(n) # {}
              /\ loaded' = loaded \cup {n}
              /\ UNCHANGED active
              /\ NextName(c, TRUE)
           \/ /\ IF kind = "load_tools" THEN Owners(n) = {} ELSE n \notin Toolsets
              /\ UNCHANGED routerVars
              /\ NextName(c, FALSE)
        /\ UNCHANGED <<clientVars, asked, drops, unannounced>>

\* A fault to detect: only additions are announced.
MustNotifyLoads(k) == k.changed /\ k.req.kind # "unload_toolset"

\* An answer that is no error says what changed; then everybody is told.
MustNotify(k) == k.changed

NamesDone(c) ==
    /\ call[c].at = "names" /\ call[c].rest = <<>>
    /\ call' = [call EXCEPT ![c] = IF MustNotify(@) THEN [@ EXCEPT !.at = "notify"] ELSE Rest]
    /\ UNCHANGED <<routerVars, clientVars, asked, drops, unannounced>>

\* A fault to detect: a stream that has no room is forgotten but stays open.
NotifyForgetting(c) ==
    /\ call[c].at = "notify"
    /\ queue' = [d \in Clients |-> IF d = c /\ stream[d] /\ queue[d] < Buffer THEN queue[d] + 1 ELSE queue[d]]
    /\ call' = [call EXCEPT ![c] = IF @.req.kind = "call" THEN [@ EXCEPT !.at = "lookup", !.changed = FALSE] ELSE Rest]
    /\ unannounced' = FALSE
    /\ UNCHANGED <<routerVars, stream, relist, shown, asked, drops>>

\* notify_tools_list_changed: a stream that has no room is given up, which ends it.
Notify(c) ==
    /\ call[c].at = "notify"
    /\ queue' = [d \in Clients |-> IF stream[d] /\ queue[d] < Buffer THEN queue[d] + 1 ELSE queue[d]]
    /\ stream' = [d \in Clients |-> stream[d] /\ queue[d] < Buffer]
    /\ call' = [call EXCEPT ![c] = IF @.req.kind = "call" THEN [@ EXCEPT !.at = "lookup", !.changed = FALSE] ELSE Rest]
    /\ unannounced' = FALSE
    /\ UNCHANGED <<routerVars, relist, shown, asked, drops>>

Called(c) == call[c].req.names[1]

\* A tool that is not loaded is an error, unless its toolset may be loaded for it.
Lookup(c) ==
    /\ call[c].at = "lookup"
    /\ call' = [call EXCEPT ![c] =
         IF Called(c) \in loaded THEN [@ EXCEPT !.at = "gate"]
         ELSE IF AutoLoad /\ ~@.again /\ Owners(Called(c)) # {} THEN [@ EXCEPT !.at = "autoload"]
         ELSE Rest]
    /\ UNCHANGED <<routerVars, clientVars, asked, drops, unannounced>>

LoadForCall(c) ==
    /\ call[c].at = "autoload"
    /\ \E ts \in Owners(Called(c)) : Load(ts)
    /\ call' = [call EXCEPT ![c].at = "notify", ![c].changed = TRUE, ![c].again = TRUE]
    /\ UNCHANGED <<clientVars, asked, drops, unannounced>>

\* The mode gate, before the handler.
Gate(c) ==
    /\ call[c].at = "gate"
    /\ call' = [call EXCEPT ![c] = IF Called(c) \in Allowed THEN [@ EXCEPT !.at = "run"] ELSE Rest]
    /\ UNCHANGED <<routerVars, clientVars, asked, drops, unannounced>>

\* The handler runs to its end, whatever the catalogue is by now.
Run(c) ==
    /\ call[c].at = "run"
    /\ call' = [call EXCEPT ![c] = Rest]
    /\ UNCHANGED <<routerVars, clientVars, asked, drops, unannounced>>

\* The connection of a request breaks: what the server was at is dropped.
Drop(c) ==
    /\ call[c].at # "idle" /\ drops < MaxDrops
    /\ drops' = drops + 1
    /\ unannounced' = (unannounced \/ call[c].changed)
    /\ call' = [call EXCEPT ![c] = Rest]
    /\ UNCHANGED <<routerVars, clientVars, asked>>

\* The client reads a notification, lists the tools, opens a stream that ended again.
Hear(c) ==
    /\ queue[c] > 0
    /\ queue' = [queue EXCEPT ![c] = @ - 1]
    /\ relist' = [relist EXCEPT ![c] = TRUE]
    /\ UNCHANGED <<routerVars, call, stream, shown, asked, drops, unannounced>>

List(c) ==
    /\ relist[c]
    /\ relist' = [relist EXCEPT ![c] = FALSE]
    /\ shown' = [shown EXCEPT ![c] = loaded]
    /\ UNCHANGED <<routerVars, call, stream, queue, asked, drops, unannounced>>

Reopen(c) ==
    /\ ~stream[c] /\ queue[c] = 0
    /\ stream' = [stream EXCEPT ![c] = TRUE]
    /\ relist' = [relist EXCEPT ![c] = TRUE]
    /\ UNCHANGED <<routerVars, call, queue, shown, asked, drops, unannounced>>

Serve(c) == Name(c) \/ NamesDone(c) \/ Notify(c) \/ Lookup(c) \/ LoadForCall(c) \/ Gate(c) \/ Run(c)

SessionNext ==
    \E c \in Clients :
        \/ \E r \in Requests : Ask(c, r)
        \/ Serve(c) \/ Drop(c)
        \/ Hear(c) \/ List(c) \/ Reopen(c)

SessionSpec == SessionInit /\ [][SessionNext]_sessionVars

\* The server goes on with every request it has, and a client reads its stream.
SessionFairness == \A c \in Clients : WF_sessionVars(Serve(c)) /\ WF_sessionVars(Hear(c) \/ Reopen(c)) /\ WF_sessionVars(List(c))

FairSessionSpec == SessionSpec /\ SessionFairness
-----------------------------------------------------------------------------
SessionTypeOK ==
    /\ active \subseteq Toolsets /\ loaded \subseteq Tools
    /\ call \in [Clients -> Calls]
    /\ stream \in [Clients -> BOOLEAN] /\ queue \in [Clients -> 0..Buffer]
    /\ relist \in [Clients -> BOOLEAN] /\ shown \in [Clients -> SUBSET Tools]
    /\ asked \in 0..MaxRequests /\ drops \in 0..MaxDrops /\ unannounced \in BOOLEAN

\* An active toolset, which list_toolboxes shows as loaded, has all its tools in
\* the catalogue, whoever loads and unloads single tools and toolsets meanwhile
\* (load and unload take the router's two locks together, load_tool takes one).
ActiveAreLoaded == \A ts \in active : ToolsOf[ts] \subseteq loaded

\* Both at every moment.
SessionOK == SessionTypeOK /\ ActiveAreLoaded

\* A client whose list of tools is not the server's has a notification waiting,
\* knows that it must list again, has lost its stream and with it the client's
\* cue to open another, or a request is under way that will notify it: a full
\* channel never makes a client miss the last change (notify_tools_list_changed).
\* The one exception is a request that was dropped before it notified.
StaleClientsHear ==
    \A c \in Clients : shown[c] # loaded =>
        \/ queue[c] > 0 \/ relist[c] \/ ~stream[c]
        \/ \E d \in Clients : call[d].changed
        \/ unannounced

\* Every client comes to see the catalogue as it is, over and over, unless the
\* request that changed it last was dropped before it notified (issue #19).
CatalogueConverges == \A c \in Clients : []<>(shown[c] = loaded \/ unannounced)

\* What load_tool's comment says of unload_toolset (router/mod.rs:89): a tool
\* admitted on its own does not leave the catalogue with a toolset nobody loaded.
SingleToolsStay == [][\A t \in loaded \ loaded' : Owners(t) \subseteq active]_sessionVars
=============================================================================
