------------------------------- MODULE Hermes -------------------------------
(***************************************************************************)
(* The Hermes boundary (src/zero_mem/hermes_integration.py): one object    *)
(* per integration that composes a capture adapter, a read adapter and an  *)
(* injection adapter according to the runtime mode, under one process-wide *)
(* gate, while the host calls the callbacks it was given and other code of *)
(* the process turns the gate.                                             *)
(*                                                                         *)
(* A boundary call is a program of steps taken under the boundary's lock;  *)
(* the callbacks do not take that lock.  The adapters of one composition   *)
(* are one element of gens[b]: the host keeps their callbacks for ever.    *)
(***************************************************************************)
EXTENDS Evidence

CONSTANTS
  Boundaries, Contexts,   \* HermesBoundary objects, plugin contexts of the host
  Envs,                   \* environment and configuration, as _runtime_mode reads them
  HostEvents,             \* payloads of the host's hooks
  ToolCalls,              \* requests to the M6 read tools
  Requests,               \* what a pre_llm_call hook makes of its message
  Memory,                 \* items of the derived store at the start
  Rewrites,               \* items that later writes put in their place
  Ceiling,                \* the sensitivity ceiling of the injection adapter
  OwnProfile, OwnProject, \* the identity the integration is configured with
  RankOf(_), Now,         \* the order of event ids, and a time later than every item's
  MaxRegisters, MaxShutdowns, MaxTurns, MaxHostCalls, MaxFaults, MaxWrites, MaxActions   \* bounds

(* A registration brings a context of the host. *)
ASSUME ContextAssumption == None \notin Contexts

(* The derived store has one row of an identity, and every row has one.    *)
ASSUME MemoryAssumption ==
  /\ IsFiniteSet(Memory) /\ \A i \in Memory \cup Rewrites : Ranked(i)
  /\ \A i, j \in Memory : Resource(i) = Resource(j) => i = j

VARIABLES
  env,       \* the environment of the process
  gate,      \* the default ZeroMemRuntime, and whether it is _BOUNDARY_DISABLED_RUNTIME
  vetoed,    \* history: other code of the process turned the gate off last
  gens,      \* the adapters of every composition, by boundary
  cur,       \* which of them the boundary refers to, its context and its mode
  reg,       \* the boundary call under way
  revoked,   \* history: the last call of the boundary took its authority away
  m6,        \* whose store the process-wide M6 runtime reads
  canon,     \* the captured events, by boundary
  items,     \* the derived store, by boundary
  hooking,   \* a capture callback between its gate check and the capture
  asking,    \* a tool handler between its checks and the sidecar
  pipe,      \* the evidence pipeline under way
  out,       \* its last result, until the host takes it
  answers,   \* how many tool calls a boundary answered
  used       \* how often each bounded action was taken
hermesVars == <<env, gate, vetoed, gens, cur, reg, revoked, m6, canon, items, hooking, asking, pipe, out, answers, used>>
boundary == <<gens, cur, reg, revoked, m6>>
stores == <<canon, items>>
host == <<hooking, asking, pipe, out, answers>>

NoAdapters == [cap |-> 0, read |-> 0, inj |-> 0, ctx |-> None, mode |-> "off"]
NoCall == [todo |-> <<>>, mode |-> "off", ctx |-> None, may |-> FALSE, quiet |-> FALSE]

HermesInit ==
  /\ env \in Envs
  /\ gate = [enabled |-> FALSE, source |-> "none", mine |-> FALSE] /\ vetoed = FALSE
  /\ gens = [b \in Boundaries |-> <<>>] /\ cur = [b \in Boundaries |-> NoAdapters]
  /\ reg = [b \in Boundaries |-> NoCall] /\ revoked = [b \in Boundaries |-> TRUE] /\ m6 = None
  /\ canon = [b \in Boundaries |-> {}] /\ items = [b \in Boundaries |-> Memory]
  /\ hooking = None /\ asking = None /\ pipe = None /\ out = None
  /\ answers = [b \in Boundaries |-> 0]
  /\ used = [registers |-> 0, shutdowns |-> 0, turns |-> 0, calls |-> 0, faults |-> 0, writes |-> 0]

Spent == used.registers + used.shutdowns + used.turns + used.calls + used.writes
Spend(what) == Spent < MaxActions /\ used' = [used EXCEPT ![what] = @ + 1]

-----------------------------------------------------------------------------
(* The mode, from the environment and the configuration *)

MasterSwitch == env.switch \in {"absent", "true"}
Modes == {"off", "observe", "assist", "inject"}

RuntimeMode ==
  IF ~MasterSwitch THEN "off"
  ELSE IF env.mode # "absent" THEN (IF env.mode \in Modes THEN env.mode ELSE "off")
  ELSE CASE env.capture \in {"absent", "observation_only"} -> "observe"
         [] env.capture \in Modes -> env.capture
         [] OTHER -> "off"

ModeReadEnabled(mode) == mode \in {"assist", "inject"}
ModeInjectionEnabled(mode) == mode = "inject"

-----------------------------------------------------------------------------
(* The programs of HermesBoundary.register and shutdown *)

Closing == <<"closeReader", "closeCapture", "closeInjector">>
DropAuthorityForgetful == <<"forget">> \o Closing
DropAuthority == Closing \o <<"forget">>

(* restart of every adapter the boundary refers to *)
RestartSteps(b) ==
  <<"closeCapture", "look", "reopenCapture">>
  \o (IF cur[b].read # 0 THEN <<"closeReader", "restartReader">> ELSE <<>>)
  \o (IF cur[b].inj # 0 THEN <<"wakeInjector">> ELSE <<>>)

Composing(mode) ==
  <<"look", "openCapture", "hook">>
  \o (IF ModeReadEnabled(mode) THEN <<"look", "newReader">> ELSE <<>>)
  \o (IF ModeInjectionEnabled(mode) THEN <<"newInjector">> ELSE <<"noInjector">>) \o <<"finish">>

ComposeStepsUnclosed(b, mode) == Composing(mode)
ComposeSteps(b, mode) == (IF cur[b].ctx # None THEN Closing ELSE <<>>) \o Composing(mode)

Idle(b) == reg[b].todo = <<>>

Register(b, ctx) ==
  /\ Idle(b) /\ used.registers < MaxRegisters
  /\ reg' = [reg EXCEPT ![b] =
       [todo |-> IF RuntimeMode = "off" THEN DropAuthority \o <<"disable">> ELSE <<"gate">>,
        mode |-> RuntimeMode, ctx |-> ctx, may |-> FALSE, quiet |-> RuntimeMode = "off"]]
  /\ revoked' = [revoked EXCEPT ![b] = FALSE]
  /\ Spend("registers")
  /\ UNCHANGED <<env, gate, vetoed, gens, cur, m6, stores, host>>

Shutdown(b) ==
  /\ Idle(b) /\ used.shutdowns < MaxShutdowns
  /\ reg' = [reg EXCEPT ![b] = [NoCall EXCEPT !.todo = Closing, !.quiet = TRUE]]
  /\ Spend("shutdowns")
  /\ UNCHANGED <<env, gate, vetoed, gens, cur, revoked, m6, stores, host>>

At(b, step) == ~Idle(b) /\ Head(reg[b].todo) = step
Goto(b, todo) ==
  /\ reg' = [reg EXCEPT ![b].todo = todo]
  /\ revoked' = [revoked EXCEPT ![b] = @ \/ (todo = <<>> /\ reg[b].quiet)]
Next1(b) == Goto(b, Tail(reg[b].todo))
Rest == UNCHANGED <<env, vetoed, stores, host, used>>

(* The process gate: a disabled runtime is taken over only when this class *)
(* left it; a foreign one is kept, under a mark of the boundary's own.     *)
Gate(b) ==
  /\ At(b, "gate")
  /\ LET open == gate.enabled \/ gate.source = "none" \/ (gate.source = "boundary" /\ gate.mine)
         again == cur[b].ctx = reg[b].ctx /\ cur[b].mode = reg[b].mode
     IN /\ gate' = IF ~open THEN gate
                   ELSE IF gate.enabled THEN [gate EXCEPT !.mine = FALSE]
                   ELSE [enabled |-> TRUE, source |-> "boundary", mine |-> FALSE]
        /\ reg' = [reg EXCEPT ![b].todo = IF ~open THEN DropAuthority \o <<"hold">>
                                          ELSE IF again THEN RestartSteps(b) ELSE ComposeSteps(b, reg[b].mode),
                              ![b].quiet = ~open]
  /\ UNCHANGED <<gens, cur, revoked, m6>> /\ Rest

Disable(b) ==
  /\ \/ At(b, "disable") /\ gate' = [enabled |-> FALSE, source |-> "boundary", mine |-> TRUE]
     \/ At(b, "hold") /\ gate' = [enabled |-> FALSE, source |-> "explicit", mine |-> TRUE]
  /\ Next1(b) /\ UNCHANGED <<gens, cur, m6>> /\ Rest

Forget(b) ==
  /\ At(b, "forget") /\ cur' = [cur EXCEPT ![b] = NoAdapters]
  /\ Next1(b) /\ UNCHANGED <<gate, gens, m6>> /\ Rest

-----------------------------------------------------------------------------
(* Lifecycle of the adapters *)

Change(b, g, new) == gens' = IF g = 0 THEN gens ELSE [gens EXCEPT ![b][g] = new]
Cap(b) == gens[b][cur[b].cap]

CloseReader(b) ==
  /\ At(b, "closeReader")
  /\ LET g == cur[b].read IN Change(b, g, [gens[b][g] EXCEPT !.readOn = FALSE, !.started = FALSE])
  /\ Next1(b) /\ UNCHANGED <<gate, cur, m6>> /\ Rest

CloseCapture(b) ==
  /\ At(b, "closeCapture")
  /\ LET g == cur[b].cap IN Change(b, g, [gens[b][g] EXCEPT !.enabled = FALSE, !.open = FALSE])
  /\ Next1(b) /\ UNCHANGED <<gate, cur, m6>> /\ Rest

Running(b, g) == pipe # None /\ pipe.boundary = b /\ pipe.gen = g

(* The pipeline holds the adapter's lock from its first check to its end.  *)
CloseInjector(b) ==
  /\ At(b, "closeInjector") /\ ~Running(b, cur[b].inj)
  /\ LET g == cur[b].inj IN Change(b, g, [gens[b][g] EXCEPT !.active = FALSE])
  /\ Next1(b) /\ UNCHANGED <<gate, cur, m6>> /\ Rest

(* A constructor of an adapter reads the gate and then sets it. *)
Look(b) ==
  /\ At(b, "look")
  /\ reg' = [reg EXCEPT ![b].todo = Tail(@), ![b].may = gate.enabled \/ gate.source \in {"none", "adapter"}]
  /\ UNCHANGED <<gate, gens, cur, revoked, m6>> /\ Rest
Adopted(b) == IF reg[b].may THEN [enabled |-> TRUE, source |-> "adapter", mine |-> FALSE] ELSE gate

Fault == used.faults < MaxFaults /\ used' = [used EXCEPT !.faults = @ + 1]
               /\ UNCHANGED <<env, vetoed, stores, host>>

Composed(b) ==
  [ctx |-> reg[b].ctx, enabled |-> TRUE, open |-> gate'.enabled, runs |-> reg[b].mode, hooked |-> FALSE,
   readOn |-> FALSE, readGate |-> FALSE, started |-> FALSE, tooled |-> FALSE, active |-> FALSE, injHooked |-> FALSE]

OpenCapture(b) ==
  /\ At(b, "openCapture") /\ gate' = Adopted(b)
  /\ \/ /\ gens' = [gens EXCEPT ![b] = Append(@, Composed(b))]
        /\ cur' = [cur EXCEPT ![b].cap = Len(gens[b]) + 1]
        /\ Next1(b) /\ Rest
     \/ /\ Fault /\ UNCHANGED <<gens, cur, revoked>>
        /\ reg' = [reg EXCEPT ![b].todo = DropAuthority, ![b].quiet = TRUE]
  /\ UNCHANGED m6

(* The constructor runs again on the same object, without the mode; its    *)
(* failure leaves register with an exception.                              *)
ReopenCapture(b) ==
  /\ At(b, "reopenCapture") /\ gate' = Adopted(b)
  /\ LET g == cur[b].cap IN
     \/ /\ Change(b, g, [gens[b][g] EXCEPT !.enabled = TRUE, !.open = gate'.enabled, !.runs = "assist"])
        /\ Next1(b) /\ Rest
     \/ /\ Fault /\ Change(b, g, [gens[b][g] EXCEPT !.enabled = TRUE]) /\ Goto(b, <<>>)
  /\ UNCHANGED <<cur, m6>>

Hook(b) ==
  /\ At(b, "hook")
  /\ gens' = [gens EXCEPT ![b][cur[b].cap].hooked = TRUE]
  /\ Next1(b) /\ UNCHANGED <<gate, cur, m6>> /\ Rest

(* startup: nothing while the gate the adapter was built under is off; else *)
(* a probe of the store, and the process-wide M6 runtime is this store's.   *)
Started(g) == [g EXCEPT !.readOn = TRUE, !.started = @ \/ g.readGate]
Serves(b, g) == m6' = IF g.readGate THEN b ELSE m6

NewReader(b) ==
  /\ At(b, "newReader") /\ gate' = Adopted(b)
  /\ LET g == [Cap(b) EXCEPT !.readGate = gate'.enabled, !.readOn = TRUE] IN
     \/ /\ gens' = [gens EXCEPT ![b][cur[b].cap] = [Started(g) EXCEPT !.tooled = TRUE]]
        /\ Serves(b, g) /\ Rest
     \/ /\ g.readGate /\ Fault /\ gens' = [gens EXCEPT ![b][cur[b].cap] = g] /\ UNCHANGED m6
  /\ cur' = [cur EXCEPT ![b].read = cur[b].cap]
  /\ Next1(b)

RestartReader(b) ==
  /\ At(b, "restartReader")
  /\ LET i == cur[b].read  g == gens[b][i] IN
     \/ Change(b, i, Started(g)) /\ Serves(b, g) /\ Next1(b) /\ Rest
     \/ g.readGate /\ Fault /\ Change(b, i, [g EXCEPT !.readOn = TRUE]) /\ UNCHANGED m6 /\ Goto(b, <<>>)
  /\ UNCHANGED <<gate, cur>>

Injector(b) ==
  /\ \/ /\ At(b, "newInjector")
        /\ gens' = [gens EXCEPT ![b][cur[b].cap].active = TRUE, ![b][cur[b].cap].injHooked = TRUE]
        /\ cur' = [cur EXCEPT ![b].inj = cur[b].cap]
     \/ /\ At(b, "noInjector") /\ cur' = [cur EXCEPT ![b].inj = 0] /\ UNCHANGED gens
     \/ /\ At(b, "wakeInjector") /\ ~Running(b, cur[b].inj)
        /\ LET g == cur[b].inj IN Change(b, g, [gens[b][g] EXCEPT !.active = @ \/ gens[b][g].injHooked])
        /\ UNCHANGED cur
  /\ Next1(b) /\ UNCHANGED <<gate, m6>> /\ Rest

Finish(b) ==
  /\ At(b, "finish")
  /\ cur' = [cur EXCEPT ![b].ctx = reg[b].ctx, ![b].mode = reg[b].mode]
  /\ Next1(b) /\ UNCHANGED <<gate, gens, m6>> /\ Rest

-----------------------------------------------------------------------------
(* Capture callbacks *)

LlmHooks == {"pre_llm_call", "post_llm_call"}
ToolHooks == {"pre_tool_call", "post_tool_call"}
KanbanHooks == {"kanban_task_claimed", "kanban_task_completed", "kanban_task_blocked"}
SessionHooks == {"on_session_start", "on_session_end", "on_session_finalize", "on_session_reset"}

(* The host's own occurrence identity when it suffices for the hook, else  *)
(* one of its own for each delivery.  The item is the turn, the tool call, *)
(* the child agent, the skill with its action or the task, by hook.        *)
EventIdentityAt(e, calls) ==
  LET known == /\ e.hook \in LlmHooks \cup SessionHooks \cup {"on_skill_lifecycle"} => e.session # None
               /\ e.hook \notin SessionHooks => e.item # None
  IN IF e.id # None THEN <<e.id>>
     ELSE IF known THEN <<"observed", e.hook, e.session, IF e.hook \in SessionHooks THEN None ELSE e.item>>
     ELSE <<"generated", e.hook, calls>>
EventIdentity(e) == EventIdentityAt(e, used.calls)

EventType(hook) ==
  CASE hook = "pre_llm_call" -> "user_statement" [] hook = "post_llm_call" -> "assistant_claim"
    [] hook \in ToolHooks -> "tool_observation" [] OTHER -> "system_event"

(* A payload that can be copied safely, of a hook the bridge supports.     *)
SupportedHooks == LlmHooks \cup ToolHooks \cup KanbanHooks \cup SessionHooks
                  \cup {"on_skill_lifecycle", "subagent_start", "subagent_stop"}
Mapped(e) == e.hook \in SupportedHooks /\ e.safe

(* Every identity of a delivery has its place in the order. *)
ASSUME IdentityAssumption ==
  /\ Now \in Int /\ MaxHostCalls \in Nat
  /\ \A e \in HostEvents, n \in 0..MaxHostCalls : RankOf(EventIdentityAt(e, n)) \in Int

(* What is never to be stored is refused, and so is what the validation of *)
(* the envelope refuses: a kanban event brings a lifecycle of its own.     *)
Admitted(e) ==
  /\ Mapped(e) /\ ~e.neverStore
  /\ e.hook \in KanbanHooks => e.life \in Lifecycles

(* The envelope, whatever sensitivity or status the payload itself tells.  *)
Captured(e) ==
  [id |-> RankOf(EventIdentity(e)), type |-> "event", memory |-> EventType(e.hook),
   life |-> IF e.hook \in KanbanHooks THEN e.life ELSE "observed",
   status |-> "none", sensitivity |-> "private", at |-> Now, sourceEvent |-> None, trace |-> RankOf(EventIdentity(e)),
   session |-> e.session, profile |-> OwnProfile, project |-> OwnProject, space |-> None, size |-> e.size,
   matches |-> FALSE, validFrom |-> None, conflict |-> FALSE, relevance |-> None]

HookCalled(b, g, e) ==
  /\ hooking = None /\ used.calls < MaxHostCalls
  /\ gens[b][g].hooked /\ gate.enabled /\ gens[b][g].enabled
  /\ hooking' = [boundary |-> b, gen |-> g, event |-> e]
  /\ Spend("calls")
  /\ UNCHANGED <<env, gate, vetoed, boundary, stores, asking, pipe, out, answers>>

(* Under the adapter's lock the gate and the runtime are looked at again.  *)
MayCaptureUnchecked(b, g) == gate.enabled
MayCapture(b, g) == gate.enabled /\ gens[b][g].open

(* The writer: a known event is a duplicate. *)
Appended(b, e) ==
  IF \E c \in canon[b] : c.id = RankOf(EventIdentity(e)) THEN canon[b] ELSE canon[b] \cup {Captured(e)}

Observe ==
  /\ hooking # None
  /\ LET b == hooking.boundary  e == hooking.event
     IN canon' = IF MayCapture(b, hooking.gen) /\ Admitted(e) THEN [canon EXCEPT ![b] = Appended(b, e)] ELSE canon
  /\ hooking' = None
  /\ UNCHANGED <<env, gate, vetoed, boundary, items, asking, pipe, out, answers, used>>

(* The projection worker of the open runtime, which passes over an event   *)
(* it has, and writers of project memory in other processes.               *)
Project(b) ==
  /\ \E g \in DOMAIN gens[b] : gens[b][g].open
  /\ \E c \in canon[b] : /\ \A i \in items[b] : Resource(i) # Resource(c)
                         /\ items' = [items EXCEPT ![b] = @ \cup {c}]
  /\ UNCHANGED <<env, gate, vetoed, boundary, canon, host, used>>

Rewrite(b, r) ==
  /\ used.writes < MaxWrites /\ r \notin items[b]
  /\ items' = [items EXCEPT ![b] = {i \in @ : Resource(i) # Resource(r)} \cup {r}]
  /\ Spend("writes")
  /\ UNCHANGED <<env, gate, vetoed, boundary, canon, host>>

-----------------------------------------------------------------------------
(* Read tools *)

(* The type a tool is fixed to, and what its handler insists on. *)
Tool(type, needs) == [type |-> type, needs |-> needs]
Tools ==
  [memory_query |-> Tool("event", {}), memory_search |-> Tool("event", {"search_text"}),
   memory_get_event |-> Tool("event", {"event_id"}), memory_get_related |-> Tool("relation", {"event_id"}),
   project_get_charter |-> Tool("charter", {"project_id"}), project_list_requirements |-> Tool("requirement", {"project_id"}),
   project_list_decisions |-> Tool("decision", {"project_id"}), project_get_state |-> Tool("project_state", {"project_id"}),
   project_list_verifications |-> Tool("verification", {"project_id"}), project_list_artifacts |-> Tool("artifact", {"project_id"}),
   corpus_search |-> Tool("corpus_unit", {"search_text"})]

Validated(call) ==
  IF ~call.known \/ call.tool = None THEN "INVALID_REQUEST"
  ELSE IF call.operation # "READ" THEN "UNSUPPORTED_OPERATION"
  ELSE IF ~call.bounded THEN "INVALID_REQUEST" ELSE "VALID"

Handled(call) == IF Tools[call.tool].needs \subseteq call.given THEN "HANDLED" ELSE "INVALID_REQUEST"

(* Strict request, allowlisted tool, its fixed type, its handler. *)
Dispatched(call) ==
  IF Validated(call) # "VALID" THEN Validated(call)
  ELSE IF call.tool \notin DOMAIN Tools THEN "UNSUPPORTED_TOOL"
  ELSE IF call.type \notin {None, Tools[call.tool].type} THEN "INVALID_REQUEST"
  ELSE Handled(call)

ToolCalled(b, g, call) ==
  /\ asking = None /\ used.calls < MaxHostCalls
  /\ gens[b][g].tooled /\ gate.enabled /\ gens[b][g].readOn /\ gens[b][g].started
  /\ asking' = [boundary |-> b, gen |-> g, call |-> call]
  /\ Spend("calls")
  /\ UNCHANGED <<env, gate, vetoed, boundary, stores, hooking, pipe, out, answers>>

(* The handler of the M6 runtime that is the process's by now. *)
ToolAnswered ==
  /\ asking # None
  /\ LET b == asking.boundary
     IN answers' = IF gate.enabled /\ gens[b][asking.gen].started /\ Dispatched(asking.call) = "HANDLED"
                   THEN [answers EXCEPT ![b] = @ + 1] ELSE answers
  /\ asking' = None
  /\ UNCHANGED <<env, gate, vetoed, boundary, stores, hooking, pipe, out, used>>

-----------------------------------------------------------------------------
(* Injection *)

Result(b, status, read, es, omitted, req) ==
  [boundary |-> b, status |-> status, read |-> read, set |-> es, omitted |-> omitted, req |-> req]

InjectionCalled(b, g, req) ==
  /\ pipe = None /\ out = None /\ used.calls < MaxHostCalls
  /\ gens[b][g].injHooked /\ gate.enabled /\ gens[b][g].active
  /\ RouteOf(req) # "no_memory"
  /\ IF RouteOf(req) = "external_current"
     THEN /\ out' = Result(b, Render(EmptySet("EXTERNAL_CURRENT_REQUIRED")).status, {}, EmptySet("EXTERNAL_CURRENT_REQUIRED"), 0, req)
          /\ UNCHANGED pipe
     ELSE /\ pipe' = [boundary |-> b, gen |-> g, req |-> req, todo |-> Reads(req), got |-> {}]
          /\ UNCHANGED out
  /\ Spend("calls")
  /\ UNCHANGED <<env, gate, vetoed, boundary, stores, hooking, asking, answers>>

(* One authorized read after the other; a denial or an error reads nothing. *)
RetrieveNext ==
  /\ pipe # None /\ pipe.todo # <<>>
  /\ \/ /\ pipe' = [pipe EXCEPT !.todo = Tail(@), !.got = @ \cup Read(Head(pipe.todo), items[pipe.boundary], pipe.req)]
        /\ UNCHANGED used
     \/ /\ used.faults < MaxFaults /\ used' = [used EXCEPT !.faults = @ + 1]
        /\ pipe' = [pipe EXCEPT !.todo = Tail(@)]
  /\ UNCHANGED <<env, gate, vetoed, boundary, stores, hooking, asking, out, answers>>

Inject ==
  /\ pipe # None /\ pipe.todo = <<>>
  /\ LET es == EvidenceSet(pipe.got, pipe.req, Ceiling)
         shown == Render(es)
         refused == EmptySet("VALIDATION_FAILED")
     IN out' = IF ~Valid(es) THEN Result(pipe.boundary, "REFUSED", pipe.got, refused, 0, pipe.req)
               ELSE Result(pipe.boundary, shown.status, pipe.got, shown.set, shown.omitted, pipe.req)
  /\ pipe' = None
  /\ UNCHANGED <<env, gate, vetoed, boundary, stores, hooking, asking, answers, used>>

Taken ==
  /\ out # None /\ out' = None
  /\ UNCHANGED <<env, gate, vetoed, boundary, stores, hooking, asking, pipe, answers, used>>

-----------------------------------------------------------------------------
(* The rest of the process, and its environment *)

SetGate(enabled) ==
  /\ used.turns < MaxTurns
  /\ gate' = [enabled |-> enabled, source |-> "explicit", mine |-> FALSE]
  /\ vetoed' = ~enabled
  /\ Spend("turns")
  /\ UNCHANGED <<env, boundary, stores, host>>

SetEnv(e) ==
  /\ used.turns < MaxTurns /\ env' = e /\ e # env
  /\ Spend("turns")
  /\ UNCHANGED <<gate, vetoed, boundary, stores, host>>

Step(b) ==
  \/ Gate(b) \/ Disable(b) \/ Forget(b) \/ CloseReader(b) \/ CloseCapture(b) \/ CloseInjector(b)
  \/ Look(b) \/ OpenCapture(b) \/ ReopenCapture(b) \/ Hook(b) \/ NewReader(b) \/ RestartReader(b)
  \/ Injector(b) \/ Finish(b)

Host(b) ==
  \E g \in DOMAIN gens[b] :
    \/ \E e \in HostEvents : HookCalled(b, g, e)
    \/ \E call \in ToolCalls : ToolCalled(b, g, call)
    \/ \E req \in Requests : InjectionCalled(b, g, req)

HermesNext ==
  \/ \E b \in Boundaries :
       \/ \E ctx \in Contexts : Register(b, ctx)
       \/ Shutdown(b) \/ Step(b) \/ Host(b) \/ Project(b)
       \/ \E r \in Rewrites : Rewrite(b, r)
  \/ Observe \/ ToolAnswered \/ RetrieveNext \/ Inject \/ Taken
  \/ \E enabled \in BOOLEAN : SetGate(enabled)
  \/ \E e \in Envs : SetEnv(e)

HermesSpec == HermesInit /\ [][HermesNext]_hermesVars

-----------------------------------------------------------------------------
(* Properties *)

(* Type invariant: the state stays in the shapes the code's fields have.   *)
HermesTypeOK ==
  /\ env \in Envs /\ vetoed \in BOOLEAN
  /\ gate \in [enabled : BOOLEAN, source : {"none", "boundary", "adapter", "explicit"}, mine : BOOLEAN]
  /\ \A b \in Boundaries :
       /\ {cur[b].cap, cur[b].read, cur[b].inj} \subseteq 0..Len(gens[b])
       /\ cur[b].ctx \in Contexts \cup {None} /\ cur[b].mode \in Modes
       /\ reg[b].mode \in Modes /\ revoked[b] \in BOOLEAN /\ answers[b] \in Nat
  /\ m6 \in Boundaries \cup {None}

(* However often a boundary is registered, shut down or recomposed, on     *)
(* whichever context, after whichever failure: the host's callbacks reach  *)
(* at most one open writer, one started reader and one active injector,    *)
(* those the boundary still refers to, so a hook is never captured twice   *)
(* and shutdown always finds what it has to close.                         *)
LiveIsCurrent ==
  \A b \in Boundaries : \A g \in DOMAIN gens[b] :
    /\ gens[b][g].open => g = cur[b].cap
    /\ gens[b][g].started => g = cur[b].read
    /\ gens[b][g].active => g = cur[b].inj

(* Outside a boundary call, what is captured and injected is what the mode *)
(* of its last registration permits, also after a change of mode, a        *)
(* failed restart or a gate that was closed meanwhile.                     *)
ModeBoundsAuthority ==
  \A b \in Boundaries : Idle(b) => \A g \in DOMAIN gens[b] :
    /\ gens[b][g].open => cur[b].mode # "off"
    /\ gens[b][g].active => cur[b].mode = "inject"

(* Once shutdown, or a registration that found the mode off or the gate    *)
(* closed by others, has returned, no callback the host still has captures *)
(* an event, answers a tool call or injects, those already under way at    *)
(* the call included, until the boundary is registered again.              *)
RevokedMeansSilent ==
  [][\A b \in Boundaries : revoked[b] =>
       /\ canon'[b] = canon[b] /\ answers'[b] = answers[b]
       /\ (out' # out /\ out' # None) => out'.boundary # b]_hermesVars

(* An injected context with evidence accounts for every eligible item its  *)
(* reads returned: it is shown, or counted by the line that tells of       *)
(* omitted items, through both budgets, the reordering and the rendering.  *)
NothingIsSilentlyLost ==
  (out # None /\ out.status = "READY" /\ out.set.primary \o out.set.supporting # <<>>) =>
    LET shown == ToSet(out.set.primary) \cup ToSet(out.set.supporting)
        eligible == {i \in out.read : Eligible(i, Ceiling)}
    IN shown \subseteq eligible /\ Cardinality(shown) + out.omitted = Cardinality(eligible)

(* What the rendering drops to fit the context is what was worth least: an *)
(* item that calibration scored higher than a shown one of its role is     *)
(* itself shown, and a selected primary item is dropped only when no       *)
(* supporting item is shown.                                               *)
DropsTheWeakest ==
  (out # None /\ out.status = "READY" /\ out.set.reason = "EVIDENCE_READY") =>
    LET chosen == Select({i \in out.read : Eligible(i, Ceiling)}, RouteOf(out.req))
        dropped(s, t) == ToSet(s) \ ToSet(t)
        weakest(s, t) == \A d \in dropped(s, t), k \in ToSet(t) : ScoreOf(d, s, out.req) <= ScoreOf(k, s, out.req)
    IN /\ weakest(chosen.primary, out.set.primary) /\ weakest(chosen.supporting, out.set.supporting)
       /\ dropped(chosen.primary, out.set.primary) # {} => out.set.supporting = <<>>

(* "A boundary-local registration must never re-enable an already resolved *)
(* process-global disabled/closed runtime" (hermes_integration.py:496):    *)
(* no registration that finds the gate closed by other code opens it.      *)
VetoIsKept == [][\A b \in Boundaries : (vetoed /\ ~gate.enabled /\ At(b, "gate") /\ ~At(b, "gate")') => ~gate'.enabled]_hermesVars

(* What the host's callbacks reach is current and within the mode.         *)
AuthorityIsCurrent == LiveIsCurrent /\ ModeBoundsAuthority

(* What is not shown is counted, and was worth less than what is shown.    *)
EvidenceIsAccounted == NothingIsSilentlyLost /\ DropsTheWeakest
=============================================================================
