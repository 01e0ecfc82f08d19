---------------------------- MODULE ForeignTables ----------------------------
(***************************************************************************)
(* The tables the read-only API reads and other systems write.  No file of *)
(* src/ creates or writes them: rows and writers are what the SELECTs and  *)
(* the computations of src/app/*_services.py take for granted.  Of a row   *)
(* the model keeps the columns that those tell apart.  A promotion worker  *)
(* records an attempt before it counts it in the staging row, in the same  *)
(* transaction or an earlier one; it removes neither.                      *)
(*                                                                         *)
(* Bounds: one system writes in a behaviour (`writer`), at most MaxWrites  *)
(* times, and the clock stops at MaxTime.                                  *)
(***************************************************************************)
EXTENDS Integers, FiniteSets

CONSTANTS Entries,      \* staged promotions
          Services,     \* registered services
          Nodes,        \* lineage nodes
          Documents,    \* healing proposals, context packs, applications
          None,         \* no row, or SQL NULL
          Advanced,     \* statuses that entries move to
          Reported,     \* states that services report
          MaxTime(_),   \* when the clock stops, by writer
          MaxWrites(_)  \* how often a writer writes

ASSUME NoneIsNoNumber == None \notin Int
ASSUME EntriesAreFinite == IsFiniteSet(Entries)
ASSUME KeysAreFinite == IsFiniteSet(Nodes) /\ IsFiniteSet(Documents)

VARIABLES clock,
          writer, writes,
          staging,      \* runtime_promotion.ps_promotion_staging
          payload,      \* ps_local_artifacts: the JSON of an entry's artifact
          attempts,     \* ps_promotion_attempts: how many rows an entry has
          services,     \* registered_services with service_status_current
          nodes,        \* lineage_nodes: created_at
          edges,        \* lineage_edges
          proposals,    \* healing_proposals: created_at
          packs,        \* context_packs: the JSON of the metadata
          applications  \* service_registry.public_applications

promotionTables == <<staging, payload, attempts>>
lineageTables == <<nodes, edges>>
documentTables == <<proposals, packs, applications>>
tables == <<promotionTables, services, lineageTables, documentTables>>
foreignVars == <<clock, writer, writes, tables>>

Time == 0..MaxTime(writer)
Writers == {"promotions", "services", "lineage", "documents"}
TerminalStatuses == {"accepted", "rejected", "dead_lettered"}
Statuses == TerminalStatuses \cup
    {"staged", "queued", "claimed_for_send", "send_failed_retryable",
     "awaiting_receipt_reconciliation"}
ASSUME AdvancedAssumption == Advanced \subseteq Statuses
ServiceStates == {"ready", "degraded", "migrating", "unavailable", "unknown"}
ASSUME ReportedAssumption == Reported \subseteq ServiceStates
ASSUME TableBoundsAssumption == \A w \in Writers : MaxTime(w) \in Nat /\ MaxWrites(w) \in Nat

(***************************************************************************)
(* What a JSON column holds: an object (SQL NULL and text that is not JSON *)
(* are read as the empty one), a "quoted" value (the JSON null, or a JSON  *)
(* string as of an object encoded twice), or an array or a number.         *)
(***************************************************************************)
Json == {"object", "quoted", "other"}

Staged == [status: Statuses, created: Time, updated: Time,
           lease: Time \cup {None}, counted: 0..MaxWrites(writer)]
Service == [enabled: BOOLEAN, state: ServiceStates \cup {None},
            reported: Time \cup {None}]

ForeignTypeOK ==
    /\ clock \in Time /\ writer \in Writers /\ writes \in 0..MaxWrites(writer)
    /\ staging \in [Entries -> Staged \cup {None}]
    /\ payload \in [Entries -> Json \cup {None}]
    /\ attempts \in [Entries -> 0..MaxWrites(writer)]
    /\ services \in [Services -> Service]
    /\ nodes \in [Nodes -> Time \cup {None}]
    /\ edges \subseteq Nodes \X Nodes
    /\ proposals \in [Documents -> Time \cup {None}]
    /\ packs \in [Documents -> Json \cup {None}]
    /\ applications \in [Documents -> [public: BOOLEAN, enabled: BOOLEAN]]

ForeignInit ==
    /\ clock = 0 /\ writer \in Writers /\ writes = 0
    /\ staging = [e \in Entries |-> None]
    /\ payload = [e \in Entries |-> None]
    /\ attempts = [e \in Entries |-> 0]
    /\ services = [s \in Services |->
                      [enabled |-> TRUE, state |-> None, reported |-> None]]
    /\ nodes = [n \in Nodes |-> None]
    /\ edges = {}
    /\ proposals = [d \in Documents |-> None]
    /\ packs = [d \in Documents |-> None]
    /\ applications = [d \in Documents |-> [public |-> FALSE, enabled |-> TRUE]]

WritesAs(w) ==
    /\ writer = w /\ writes < MaxWrites(writer)
    /\ writes' = writes + 1
    /\ UNCHANGED <<clock, writer>>

-----------------------------------------------------------------------------
(* The promotion worker of DataForge Local. *)

Stage(e) ==
    /\ staging[e] = None
    /\ staging' = [staging EXCEPT ![e] =
           [status |-> "staged", created |-> clock, updated |-> clock,
            lease |-> None, counted |-> attempts[e]]]
    /\ \E p \in Json \cup {None} : payload' = [payload EXCEPT ![e] = p]
    /\ UNCHANGED attempts

Advance(e) ==
    /\ staging[e] # None
    /\ \E s \in Advanced \ {staging[e].status} :
          staging' = [staging EXCEPT ![e].status = s, ![e].updated = clock,
             ![e].lease = IF s = "claimed_for_send" THEN clock ELSE None]
    /\ UNCHANGED <<payload, attempts>>

RecordAttempt(e) ==
    /\ staging[e] # None
    /\ attempts' = [attempts EXCEPT ![e] = @ + 1]
    /\ UNCHANGED <<staging, payload>>

CountAttempts(e) ==
    /\ staging[e] # None /\ staging[e].counted # attempts[e]
    /\ staging' = [staging EXCEPT ![e].counted = attempts[e],
                                  ![e].updated = clock]
    /\ UNCHANGED <<payload, attempts>>

PromotionWrite ==
    /\ WritesAs("promotions")
    /\ \E e \in Entries :
          Stage(e) \/ Advance(e) \/ RecordAttempt(e) \/ CountAttempts(e)
    /\ UNCHANGED <<services, lineageTables, documentTables>>

-----------------------------------------------------------------------------
(* Services that report their state; an operator who disables or enables. *)

Report(s) ==
    \E st \in Reported :
       services' = [services EXCEPT ![s].state = st, ![s].reported = clock]

Enable(s) == services' = [services EXCEPT ![s].enabled = ~@]

ServiceWrite ==
    /\ WritesAs("services")
    /\ \E s \in Services : Report(s) \/ Enable(s)
    /\ UNCHANGED <<promotionTables, lineageTables, documentTables>>

-----------------------------------------------------------------------------
(* Lineage: nodes and edges come and go independently. *)

AddNode(n) ==
    /\ nodes[n] = None
    /\ nodes' = [nodes EXCEPT ![n] = clock] /\ UNCHANGED edges

DropNode(n) ==
    /\ nodes[n] # None
    /\ nodes' = [nodes EXCEPT ![n] = None] /\ UNCHANGED edges

AddEdge(m, n) ==
    /\ nodes[m] # None /\ nodes[n] # None
    /\ edges' = edges \cup {<<m, n>>} /\ UNCHANGED nodes

LineageWrite ==
    /\ WritesAs("lineage")
    /\ \E m, n \in Nodes : AddNode(n) \/ DropNode(n) \/ AddEdge(m, n)
    /\ UNCHANGED <<promotionTables, services, documentTables>>

-----------------------------------------------------------------------------
(* Tables that are read one row, or one SELECT, at a time. *)

DocumentWrite ==
    /\ WritesAs("documents")
    /\ \E d \in Documents :
       \/ /\ proposals[d] = None
          /\ proposals' = [proposals EXCEPT ![d] = clock]
          /\ UNCHANGED <<packs, applications>>
       \/ /\ \E p \in Json : packs' = [packs EXCEPT ![d] = p]
          /\ UNCHANGED <<proposals, applications>>
       \/ /\ \E p, b \in BOOLEAN :
                applications' = [applications EXCEPT ![d] =
                                    [public |-> p, enabled |-> b]]
          /\ UNCHANGED <<proposals, packs>>
    /\ UNCHANGED <<promotionTables, services, lineageTables>>

Tick ==
    /\ clock < MaxTime(writer)
    /\ clock' = clock + 1
    /\ UNCHANGED <<writer, writes, tables>>

ForeignNext ==
    PromotionWrite \/ ServiceWrite \/ LineageWrite \/ DocumentWrite \/ Tick
=============================================================================
