--------------------------- MODULE AccessSecurity ---------------------------
(***************************************************************************)
(* The access-security store (trusted ports, violation policies, rate      *)
(* limits, rogue servers, threat rules), the handlers that edit it, and    *)
(* the audit pipeline every API request runs through: the handler's own    *)
(* audit entry, the access entry of auditAccessMiddleware, and the         *)
(* X-Audit-Status header auditStatusMiddleware sets once both are done.    *)
(***************************************************************************)
EXTENDS Integers

CONSTANTS Requests,        \* HTTP requests, each handled once
          RawTenants,      \* tenants as requests name them, "" among them
          Ids,             \* identifiers a payload may carry or uuid may draw
          MaxAuditFaults   \* INSERTs into audit_events that may fail

VARIABLES trustPorts, violations, rateLimits, rogues, threatRules,
          marks,     \* rogue records whose last writer is markRogueAction, and the marks since
          audit,     \* rows of audit_events
          req,       \* the requests and their state in the pipeline
          auditFaults     \* INSERTs that have failed so far

storeVars == <<trustPorts, violations, rateLimits, rogues, threatRules, marks>>
securityVars == <<storeVars, audit, req, auditFaults>>

NoId == "none"
Severities == {"low", "medium", "high"}
RogueActions == {"quarantine", "block"}

Absent == [severity |-> "low", acts |-> {}, live |-> FALSE]

\* The tenant a payload is filed under: blank means the system tenant.
normalizeTenantID(raw) == IF raw = "" THEN "system" ELSE raw
TenantIds == {normalizeTenantID(t) : t \in RawTenants}
accessTenantID(q) == normalizeTenantID(req[q].tenant)

\* Identifiers no record, request or audit entry has used: what uuid may draw.
Unused == Ids \ ({e.id : e \in audit} \cup {req[q].id : q \in Requests}
                 \cup UNION {violations[t] \cup trustPorts[t] \cup DOMAIN rateLimits[t]
                             \cup {i \in Ids : rogues[t][i].live} : t \in TenantIds})
ensureID(id) == IF id # NoId THEN {id} ELSE Unused

newAccessSecurityStore ==
  /\ trustPorts = [t \in TenantIds |-> {}]
  /\ violations = [t \in TenantIds |-> {}]
  /\ rateLimits = [t \in TenantIds |-> <<>>]
  /\ rogues = [t \in TenantIds |-> [i \in Ids |-> Absent]]
  /\ threatRules = [t \in TenantIds |-> 0]
  /\ marks = [t \in TenantIds |-> [i \in Ids |-> {}]]

SecurityInit ==
  /\ newAccessSecurityStore
  /\ audit = {} /\ auditFaults = 0
  /\ req = [q \in Requests |-> [pc |-> "idle", tenant |-> "", id |-> NoId, label |-> "none",
                                recorded |-> FALSE, failed |-> FALSE,
                                committed |-> FALSE, header |-> "unset"]]

----------------------------------------------------------------------------
(* The store.  Every operation holds s.mu for the whole of its write.      *)

RequestAt(q, pc) == req[q].pc = pc
\* respondSuccess and respondNotFound write the response: headers set later are lost.
Responds(q) == req' = [req EXCEPT ![q].pc = "access", ![q].committed = TRUE]
\* A handler that returns an error leaves the response to echo's error handler.
Refuses(q) == req' = [req EXCEPT ![q].pc = "access"]

replaceTrustPorts(t, items) == trustPorts' = [trustPorts EXCEPT ![t] = items]

upsertViolationPolicy(t, id) == violations' = [violations EXCEPT ![t] = @ \cup {id}]

deleteViolationPolicy(t, id) == violations' = [violations EXCEPT ![t] = @ \ {id}]

\* A negative limit is stored as zero.
upsertRateLimit(t, id, pps) ==
  rateLimits' = [rateLimits EXCEPT
    ![t] = [i \in DOMAIN @ \cup {id} |-> IF i = id THEN (IF pps < 0 THEN 0 ELSE pps) ELSE @[i]]]

deleteRateLimit(t, id) ==
  rateLimits' = [rateLimits EXCEPT ![t] = [i \in DOMAIN @ \ {id} |-> @[i]]]

SetRogue(t, id, r) == rogues' = [rogues EXCEPT ![t][id] = r]

\* A record of the same identifier is replaced, its actions with it.
createRogueServer(t, id, severity, acts) ==
  /\ SetRogue(t, id, [severity |-> severity, acts |-> acts, live |-> TRUE])
  /\ marks' = [marks EXCEPT ![t][id] = {}]

\* Blank fields keep what the record has; "none" stands for a blank severity.
updateRogueServer(t, id, severity) ==
  /\ SetRogue(t, id, [rogues[t][id] EXCEPT !.severity = IF severity = "none" THEN @ ELSE severity])
  /\ marks' = [marks EXCEPT ![t][id] = {}]

deleteRogueServer(t, id) ==
  /\ SetRogue(t, id, Absent)
  /\ marks' = [marks EXCEPT ![t][id] = {}]

\* Mutant: the current severity is not looked at.
Escalated_Flat(severity, action) == IF action = "block" THEN "high" ELSE "medium"

\* The severity a record has once the action is marked on it.
Escalated(severity, action) ==
  CASE action = "block" -> "high"
    [] action = "quarantine" /\ severity = "low" -> "medium"
    [] OTHER -> severity

markRogueAction(t, id, action) ==
  /\ SetRogue(t, id, [rogues[t][id] EXCEPT !.acts = @ \cup {action},
                                           !.severity = Escalated(@, action)])
  /\ marks' = [marks EXCEPT ![t][id] = @ \cup {action}]

\* Thresholds outside 1..100 become the default.
normalizeThreatRuleConfig(threshold) == IF threshold \in 1..100 THEN threshold ELSE 80

saveThreatRules(t, threshold) ==
  threatRules' = [threatRules EXCEPT ![t] = normalizeThreatRuleConfig(threshold)]

----------------------------------------------------------------------------
(* The handlers.  A request arrives with its tenant and identifier.        *)

\* auditStatusMiddleware attaches a fresh status to the request.
Arrive(q) ==
  /\ RequestAt(q, "idle")
  /\ \E t \in RawTenants, id \in Ids \cup {NoId} :
       req' = [req EXCEPT ![q].pc = "handler", ![q].tenant = t, ![q].id = id]
  /\ UNCHANGED <<storeVars, audit, auditFaults>>

handleAccessTrustPortsSave(q) ==
  /\ RequestAt(q, "handler")
  /\ \E items \in SUBSET Ids : replaceTrustPorts(accessTenantID(q), items)
  /\ Responds(q)
  /\ UNCHANGED <<violations, rateLimits, rogues, threatRules, marks, audit, auditFaults>>

\* The label of the audit entry is read from a listing taken before the write.
handleAccessViolationPoliciesUpsert(q) ==
  /\ RequestAt(q, "handler")
  /\ req' = [req EXCEPT ![q].pc = "upsert",
                        ![q].label = IF req[q].id \in violations[accessTenantID(q)] THEN "update" ELSE "create"]
  /\ UNCHANGED <<storeVars, audit, auditFaults>>

\* Mutant: the entry names the identifier of the payload.
StoreDone_Payload(q, id) == [req EXCEPT ![q].pc = "audit"]

\* The entry to come names the identifier the policy was saved under.
StoreDone(q, id) == [req EXCEPT ![q].pc = "audit", ![q].id = id]

UpsertPolicy(q) ==
  /\ RequestAt(q, "upsert")
  /\ \E id \in ensureID(req[q].id) :
       /\ upsertViolationPolicy(accessTenantID(q), id)
       /\ req' = StoreDone(q, id)
  /\ UNCHANGED <<trustPorts, rateLimits, rogues, threatRules, marks, audit, auditFaults>>

handleAccessViolationPoliciesDelete(q) ==
  /\ RequestAt(q, "handler") /\ req[q].id # NoId
  /\ IF req[q].id \in violations[accessTenantID(q)]
       THEN /\ deleteViolationPolicy(accessTenantID(q), req[q].id)
            /\ req' = [req EXCEPT ![q].pc = "audit", ![q].label = "delete"]
       ELSE Responds(q) /\ UNCHANGED violations
  /\ UNCHANGED <<trustPorts, rateLimits, rogues, threatRules, marks, audit, auditFaults>>

handleAccessRateLimitsUpsert(q) ==
  /\ RequestAt(q, "handler")
  /\ \E id \in ensureID(req[q].id), pps \in {-1, 1} : upsertRateLimit(accessTenantID(q), id, pps)
  /\ Responds(q)
  /\ UNCHANGED <<trustPorts, violations, rogues, threatRules, marks, audit, auditFaults>>

handleAccessRateLimitsDelete(q) ==
  /\ RequestAt(q, "handler") /\ req[q].id # NoId
  /\ deleteRateLimit(accessTenantID(q), req[q].id)
  /\ Responds(q)
  /\ UNCHANGED <<trustPorts, violations, rogues, threatRules, marks, audit, auditFaults>>

handleAccessRogueServersCreate(q) ==
  /\ RequestAt(q, "handler")
  /\ \E id \in ensureID(req[q].id), sv \in Severities, acts \in SUBSET RogueActions :
       createRogueServer(accessTenantID(q), id, sv, acts)
  /\ Responds(q)
  /\ UNCHANGED <<trustPorts, violations, rateLimits, threatRules, audit, auditFaults>>

\* The rogue record the request names, if there is one.
Named(q) == req[q].id # NoId /\ rogues[accessTenantID(q)][req[q].id].live

handleAccessRogueServersUpdate(q) ==
  /\ RequestAt(q, "handler") /\ Named(q)
  /\ \E sv \in Severities \cup {"none"} : updateRogueServer(accessTenantID(q), req[q].id, sv)
  /\ Responds(q)
  /\ UNCHANGED <<trustPorts, violations, rateLimits, threatRules, audit, auditFaults>>

handleAccessRogueServersDelete(q) ==
  /\ RequestAt(q, "handler") /\ Named(q)
  /\ deleteRogueServer(accessTenantID(q), req[q].id)
  /\ Responds(q)
  /\ UNCHANGED <<trustPorts, violations, rateLimits, threatRules, audit, auditFaults>>

RogueMark(q, action) ==
  /\ RequestAt(q, "handler") /\ Named(q)
  /\ markRogueAction(accessTenantID(q), req[q].id, action)
  /\ Responds(q)
  /\ UNCHANGED <<trustPorts, violations, rateLimits, threatRules, audit, auditFaults>>

handleAccessRogueServersQuarantine(q) == RogueMark(q, "quarantine")
handleAccessRogueServersBlock(q) == RogueMark(q, "block")

\* An edit of a record that is not there answers 404, which is a response too.
RogueMissing(q) ==
  /\ RequestAt(q, "handler") /\ req[q].id # NoId /\ ~Named(q)
  /\ Responds(q)
  /\ UNCHANGED <<storeVars, audit, auditFaults>>

handleAccessThreatRulesSave(q) ==
  /\ RequestAt(q, "handler")
  /\ \E n \in {0, 40, 101} : saveThreatRules(accessTenantID(q), n)
  /\ Responds(q)
  /\ UNCHANGED <<trustPorts, violations, rateLimits, rogues, marks, audit, auditFaults>>

\* A body that does not bind, or a missing path parameter, is an error.
BadRequest(q) ==
  /\ RequestAt(q, "handler") /\ Refuses(q)
  /\ UNCHANGED <<storeVars, audit, auditFaults>>

----------------------------------------------------------------------------
(* The audit trail.                                                        *)

\* RecordEvent's INSERT succeeds, or fails and is only logged.
InsertEvent(ok, e) ==
  IF ok THEN audit' = audit \cup {e} /\ UNCHANGED auditFaults
        ELSE auditFaults < MaxAuditFaults /\ auditFaults' = auditFaults + 1 /\ UNCHANGED audit

\* The status of the request after one RecordEvent.
Noted(r, ok) == [r EXCEPT !.recorded = TRUE, !.failed = @ \/ ~ok]

recordAudit(q, ok, e, next) ==
  /\ InsertEvent(ok, e)
  /\ req' = [req EXCEPT ![q] = [Noted(@, ok) EXCEPT !.pc = "access", !.committed = next]]

\* The handler's own entry, then its response.
AuditChange(q) ==
  /\ RequestAt(q, "audit")
  /\ \E ok \in BOOLEAN :
       recordAudit(q, ok, [tenant |-> accessTenantID(q), action |-> req[q].label, id |-> req[q].id], TRUE)
  /\ UNCHANGED storeVars

\* The access entry is written after the handler has returned.
auditAccessMiddleware(q) ==
  /\ RequestAt(q, "access")
  /\ \E ok \in BOOLEAN :
       /\ InsertEvent(ok, [tenant |-> accessTenantID(q), action |-> "activity", id |-> NoId])
       /\ req' = [req EXCEPT ![q] = [Noted(@, ok) EXCEPT !.pc = "status"]]
  /\ UNCHANGED storeVars

StatusOf(r) == IF r.failed THEN "failed" ELSE IF r.recorded THEN "ok" ELSE "unset"

\* The header is set when the chain returns: it is sent only if nothing was yet.
auditStatusMiddleware(q) ==
  /\ RequestAt(q, "status")
  /\ req' = [req EXCEPT ![q].pc = "done",
                        ![q].header = IF req[q].committed THEN "unset" ELSE StatusOf(req[q])]
  /\ UNCHANGED <<storeVars, audit, auditFaults>>

Handler(q) ==
  \/ handleAccessTrustPortsSave(q) \/ handleAccessThreatRulesSave(q)
  \/ handleAccessViolationPoliciesUpsert(q) \/ handleAccessViolationPoliciesDelete(q)
  \/ handleAccessRateLimitsUpsert(q) \/ handleAccessRateLimitsDelete(q)
  \/ handleAccessRogueServersCreate(q) \/ handleAccessRogueServersUpdate(q)
  \/ handleAccessRogueServersDelete(q) \/ handleAccessRogueServersQuarantine(q)
  \/ handleAccessRogueServersBlock(q) \/ RogueMissing(q) \/ BadRequest(q)

SecurityNext ==
  \E q \in Requests :
    \/ Arrive(q) \/ Handler(q) \/ UpsertPolicy(q)
    \/ AuditChange(q) \/ auditAccessMiddleware(q) \/ auditStatusMiddleware(q)

SecuritySpec == SecurityInit /\ [][SecurityNext]_securityVars

----------------------------------------------------------------------------

(* Every policy in the store is accounted for: its audit entry is written, *)
(* or a request that saved it has yet to write it, or an INSERT failed.    *)
AuditCovers ==
  \A t \in TenantIds : \A i \in violations[t] :
    \/ [tenant |-> t, action |-> "create", id |-> i] \in audit
    \/ [tenant |-> t, action |-> "update", id |-> i] \in audit
    \/ \E q \in Requests : RequestAt(q, "audit") /\ accessTenantID(q) = t /\ req[q].id = i
    \/ auditFaults > 0

(* A rogue record keeps the severity its marks call for until an operator  *)
(* rewrites it: blocked servers are high, quarantined ones not low,        *)
(* whatever order the marks of several requests arrive in.                 *)
RogueSevere ==
  \A t \in TenantIds, i \in Ids :
    /\ "block" \in marks[t][i] => rogues[t][i].severity = "high"
    /\ "quarantine" \in marks[t][i] => rogues[t][i].severity # "low"
    /\ marks[t][i] \subseteq rogues[t][i].acts

(* What the security API keeps: policies are accounted for, and rogue      *)
(* servers keep their marks (http_server.go, markRogueAction).             *)
SecuritySound == AuditCovers /\ RogueSevere

=============================================================================
