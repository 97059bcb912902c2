---------------------------- MODULE DhcpOptions ----------------------------
(***************************************************************************)
(* DHCP options, option templates and the scopes that use them             *)
(* (core_ops_routes.go and the dhcp_*_store and dhcp_*_repo files of       *)
(* internal/server).  Each kind lives twice: in a table, and in a map the  *)
(* server answers from.  A handler validates against the maps, writes the  *)
(* table and then the map, with no lock over the whole; a restart rebuilds *)
(* the maps from the tables, and the option map starts with built-in       *)
(* entries no table has.  A write the database refuses ends its handler    *)
(* before anything changed, which is a stuttering step here.               *)
(***************************************************************************)
EXTENDS Naturals, FiniteSets

CONSTANTS Options, Templates, Scopes,
          Defaults,           \* built-in options of newDHCPOptionStore
          OptionRequests,     \* HTTP requests in flight
          NoTemplate,
          MaxOptionRestarts   \* bound on restarts

ASSUME DhcpOptionsAssumption == /\ Defaults \subseteq Options
                                /\ NoTemplate \notin Templates
                                /\ \A os \in SUBSET Options : os # NoTemplate
                                /\ IsFiniteSet(Scopes)
                                /\ MaxOptionRestarts \in Nat

VARIABLES optionDb, optionMap,     \* sets of options
          templateDb, templateMap, \* template -> its options, NoTemplate when absent
          scopeDb, scopeMap,       \* scope -> [template, options], Gone when absent
          writing,                 \* what each request still has to write
          blind,                   \* some hydration of the maps has failed
          optionRestarts

optionVars == <<optionDb, optionMap, templateDb, templateMap, scopeDb, scopeMap,
                writing, blind, optionRestarts>>
tables == <<optionDb, templateDb, scopeDb>>
maps == <<optionMap, templateMap, scopeMap>>
process == <<blind, optionRestarts>>

Gone == [options |-> {}, template |-> NoTemplate, live |-> FALSE]
Live(t, os) == [options |-> os, template |-> t, live |-> TRUE]
Rest == [at |-> "rest"]

OptionsInit == /\ optionDb = {} /\ optionMap = Defaults
               /\ templateDb = [t \in Templates |-> NoTemplate] /\ templateMap = templateDb
               /\ scopeDb = [s \in Scopes |-> Gone] /\ scopeMap = scopeDb
               /\ writing = [r \in OptionRequests |-> Rest]
               /\ blind = FALSE /\ optionRestarts = 0
-----------------------------------------------------------------------------
(* Questions the handlers ask the maps.                                     *)

templateUsageCount_Chosen(t) ==
    Cardinality({s \in Scopes : scopeMap[s].template = t /\ scopeMap[s].options # {}})

templateUsageCount(t) == Cardinality({s \in Scopes : scopeMap[s].template = t})

optionUsageCount(o) == Cardinality({s \in Scopes : o \in scopeMap[s].options})

countTemplateReferencesByOption(o) ==
    Cardinality({t \in Templates : templateMap[t] # NoTemplate /\ o \in templateMap[t]})

listByTemplate(t) == {s \in Scopes : scopeMap[s].live /\ scopeMap[s].template = t}

\* The options a scope asks for must exist; a template's own are taken as they are.
resolveScopeOptionIDs(os) == os \subseteq optionMap

resolveTemplateOptionIDs(t) == templateMap[t]

Chosen(t, os) == IF os = {} /\ t # NoTemplate THEN resolveTemplateOptionIDs(t) ELSE os

KnownTemplate(t) == t # NoTemplate => templateMap[t] # NoTemplate
-----------------------------------------------------------------------------
(* The repositories, and the map that follows in a later step.              *)

FreeRequest(r) == writing[r] = Rest

Then(r, w) == writing' = [writing EXCEPT ![r] = w]

UpsertOption(o) == optionDb' = optionDb \cup {o}
DeleteOption(o) == optionDb' = optionDb \ {o}
UpsertTemplate(t, os) == templateDb' = [templateDb EXCEPT ![t] = os]
DeleteTemplate(t) == templateDb' = [templateDb EXCEPT ![t] = NoTemplate]
UpsertScope(s, v) == scopeDb' = [scopeDb EXCEPT ![s] = v]
DeleteScope(s) == scopeDb' = [scopeDb EXCEPT ![s] = Gone]

\* POST and PATCH of an option differ only in what they validate: PATCH needs it.
handleDHCPOptionCreate(r, o) ==
    /\ FreeRequest(r) /\ o \notin optionMap \cup Defaults
    /\ UpsertOption(o)
    /\ Then(r, [at |-> "option", key |-> o, on |-> TRUE])
    /\ UNCHANGED <<templateDb, scopeDb, maps, process>>

handleDHCPOptionUpdate(r, o) ==
    /\ FreeRequest(r) /\ o \in optionMap
    /\ UpsertOption(o)
    /\ Then(r, [at |-> "option", key |-> o, on |-> TRUE])
    /\ UNCHANGED <<templateDb, scopeDb, maps, process>>

handleDHCPOptionDelete(r, o) ==
    /\ FreeRequest(r)
    /\ countTemplateReferencesByOption(o) = 0 /\ optionUsageCount(o) = 0
    /\ DeleteOption(o)
    /\ Then(r, [at |-> "option", key |-> o, on |-> FALSE])
    /\ UNCHANGED <<templateDb, scopeDb, maps, process>>

handleDHCOTemplateCreate(r, t, os) ==
    /\ FreeRequest(r)
    /\ UpsertTemplate(t, os)
    /\ Then(r, [at |-> "template", key |-> t, value |-> os])
    /\ UNCHANGED <<optionDb, scopeDb, maps, process>>

\* An update without options keeps the ones the map has.
handleDHCOTemplateUpdate(r, t, os) ==
    /\ FreeRequest(r) /\ templateMap[t] # NoTemplate
    /\ LET kept == IF os = {} THEN templateMap[t] ELSE os IN
       /\ UpsertTemplate(t, kept)
       /\ Then(r, [at |-> "template", key |-> t, value |-> kept])
    /\ UNCHANGED <<optionDb, scopeDb, maps, process>>

handleDHCOTemplateDelete(r, t) ==
    /\ FreeRequest(r) /\ templateUsageCount(t) = 0
    /\ DeleteTemplate(t)
    /\ Then(r, [at |-> "template", key |-> t, value |-> NoTemplate])
    /\ UNCHANGED <<optionDb, scopeDb, maps, process>>

handleDHCPScopeCreate(r, s, t, os) ==
    /\ FreeRequest(r) /\ ~scopeDb[s].live
    /\ KnownTemplate(t) /\ resolveScopeOptionIDs(os)
    /\ UpsertScope(s, Live(t, Chosen(t, os)))
    /\ Then(r, [at |-> "scope", key |-> s, value |-> Live(t, Chosen(t, os))])
    /\ UNCHANGED <<optionDb, templateDb, maps, process>>

\* The update first replaces the whole map by the table, and edits that copy.
handleDHCPScopeUpdate(r, s, t, os) ==
    /\ FreeRequest(r) /\ scopeDb[s].live
    /\ LET new == IF t = NoTemplate THEN scopeDb[s].template ELSE t
           kept == IF os = {} THEN scopeDb[s].options ELSE os IN
       /\ KnownTemplate(new)
       /\ os # {} => resolveScopeOptionIDs(os)
       /\ UpsertScope(s, Live(new, Chosen(new, kept)))
       /\ Then(r, [at |-> "scope", key |-> s, value |-> Live(new, Chosen(new, kept))])
    /\ scopeMap' = scopeDb
    /\ UNCHANGED <<optionDb, templateDb, optionMap, templateMap, process>>

handleDHCPScopeDelete(r, s) ==
    /\ FreeRequest(r) /\ scopeDb[s].live
    /\ DeleteScope(s)
    /\ Then(r, [at |-> "scope", key |-> s, value |-> Gone])
    /\ UNCHANGED <<optionDb, templateDb, maps, process>>

\* GET /scopes also replaces the map by the table.
handleDHCPScopeList ==
    /\ scopeMap' = scopeDb
    /\ UNCHANGED <<tables, optionMap, templateMap, writing, process>>

StoreWrite(r) ==
    /\ writing[r].at \in {"option", "template", "scope"}
    /\ LET w == writing[r] IN
       /\ optionMap' = IF w.at # "option" THEN optionMap
                       ELSE IF w.on THEN optionMap \cup {w.key} ELSE optionMap \ {w.key}
       /\ templateMap' = IF w.at = "template" THEN [templateMap EXCEPT ![w.key] = w.value]
                                              ELSE templateMap
       /\ scopeMap' = IF w.at = "scope" THEN [scopeMap EXCEPT ![w.key] = w.value] ELSE scopeMap
    /\ Then(r, Rest)
    /\ UNCHANGED <<tables, process>>

\* Apply saves the template's options one by one, table and map for each.
handleDHCOTemplateApply(r, t) ==
    /\ FreeRequest(r) /\ templateMap[t] # NoTemplate
    /\ Then(r, [at |-> "apply", todo |-> templateMap[t]])
    /\ UNCHANGED <<tables, maps, process>>

ApplyOption(r) ==
    /\ writing[r].at = "apply"
    /\ \/ \E o \in writing[r].todo :
            /\ UpsertOption(o)
            /\ optionMap' = optionMap \cup {o}
            /\ Then(r, [writing[r] EXCEPT !.todo = @ \ {o}])
       \/ Then(r, Rest) /\ UNCHANGED <<optionDb, optionMap>>
    /\ UNCHANGED <<templateDb, scopeDb, templateMap, scopeMap, process>>

\* Sync pushes the template's options to the scopes that used it when it began,
\* each as the copy it read then.
handleDHCOTemplateSync(r, t, mode) ==
    /\ FreeRequest(r) /\ templateMap[t] # NoTemplate
    /\ Then(r, [at |-> "sync", mode |-> mode, from |-> templateMap[t],
                todo |-> {<<s, scopeMap[s]>> : s \in listByTemplate(t)}])
    /\ UNCHANGED <<tables, maps, process>>

SyncScope(r) ==
    /\ writing[r].at = "sync"
    /\ \/ \E target \in writing[r].todo :
            LET next == [target[2] EXCEPT !.options = writing[r].from \cup
                            (IF writing[r].mode = "merge" THEN @ ELSE {})] IN
            /\ UpsertScope(target[1], next)
            /\ scopeMap' = [scopeMap EXCEPT ![target[1]] = next]
            /\ Then(r, [writing[r] EXCEPT !.todo = @ \ {target}])
       \/ Then(r, Rest) /\ UNCHANGED <<scopeDb, scopeMap>>
    /\ UNCHANGED <<optionDb, templateDb, optionMap, templateMap, process>>

\* Hydration reads each table; one that cannot be read leaves its map empty.
hydrateCustomOptions(ok) == IF ok THEN optionDb ELSE {}
hydrateTemplateConfigs(ok) == IF ok THEN templateDb ELSE [t \in Templates |-> NoTemplate]
hydrateOptionScopes(ok) == IF ok THEN scopeDb ELSE [s \in Scopes |-> Gone]

\* Requests die with the process; the built-in options come back under new ids.
OptionsRestart(ok) ==
    /\ optionRestarts < MaxOptionRestarts
    /\ optionMap' = hydrateCustomOptions(ok)
    /\ templateMap' = hydrateTemplateConfigs(ok)
    /\ scopeMap' = hydrateOptionScopes(ok)
    /\ writing' = [r \in OptionRequests |-> Rest]
    /\ blind' = (blind \/ ~ok)
    /\ optionRestarts' = optionRestarts + 1
    /\ UNCHANGED tables

OptionsNext ==
    \/ \E r \in OptionRequests :
        \/ StoreWrite(r) \/ ApplyOption(r) \/ SyncScope(r)
        \/ \E o \in Options : \/ handleDHCPOptionCreate(r, o) \/ handleDHCPOptionUpdate(r, o)
                              \/ handleDHCPOptionDelete(r, o)
        \/ \E t \in Templates :
            \/ handleDHCOTemplateDelete(r, t) \/ handleDHCOTemplateApply(r, t)
            \/ \E mode \in {"replace", "merge"} : handleDHCOTemplateSync(r, t, mode)
            \/ \E os \in SUBSET Options : \/ handleDHCOTemplateCreate(r, t, os)
                                          \/ handleDHCOTemplateUpdate(r, t, os)
        \/ \E s \in Scopes :
            \/ handleDHCPScopeDelete(r, s)
            \/ \E t \in Templates \cup {NoTemplate}, os \in SUBSET Options :
                 handleDHCPScopeCreate(r, s, t, os) \/ handleDHCPScopeUpdate(r, s, t, os)
    \/ handleDHCPScopeList
    \/ \E ok \in BOOLEAN : OptionsRestart(ok)

OptionsSpec == OptionsInit /\ [][OptionsNext]_optionVars
-----------------------------------------------------------------------------
\* A saved scope names a saved template.  The guard of the template's deletion reads
\* only the maps, so this depends on their following the tables through every write,
\* synchronisation and restart (one request at a time, and no hydration that failed).
TemplateHeld ==
    ~blind => \A s \in Scopes : LET t == scopeDb[s].template IN
        t # NoTemplate => templateDb[t] # NoTemplate
=============================================================================
