------------------------------ MODULE Directory ------------------------------
(***************************************************************************)
(* The directory of the API's users: the roles of a user, replaced as a    *)
(* whole in one transaction, the rows that describe identity providers,    *)
(* and the providers the process really has, wired at its start from the   *)
(* configuration (internal/auth/service.go, http_server.go, main.go).      *)
(*                                                                         *)
(* The rows of providers are written by the API and read by its listing    *)
(* only: no login asks for them.                                           *)
(***************************************************************************)
EXTENDS FiniteSets

CONSTANTS
  Operators,      \* requests that replace the user's roles at the same time
  DirectoryRoles,
  ProviderIds,    \* ids a provider's row may have
  Nobody          \* no transaction, no provider

ASSUME DirectoryAssumption == Nobody \notin {"password", "ldap", "oidc"} \cup Operators

VARIABLES
  person,     \* a row of auth_users exists
  granted,    \* rows of auth_user_roles, as committed
  asked,      \* history: role sets that some call asked for
  replace,    \* per operator: a replacement and its transaction
  holder,     \* the transaction that holds the locks on the user's role rows
  providers,  \* rows of auth_identity_providers: the enabled flag
  registry,   \* Service.providers
  default,    \* Service.defaultProvider
  boot        \* what configureAuthProviders has still to do

directoryVars == <<person, granted, asked, replace, holder, providers, registry, default, boot>>
rolesVars     == <<person, granted, asked, replace, holder>>
providerVars  == <<providers, registry, default, boot>>

NoReplace == [pc |-> "idle", want |-> {}, wrote |-> {}]
-----------------------------------------------------------------------------
(* Roles of a user.                                                         *)

(* ReplaceUserRoles of the service: the user is read, blanks and repetitions are
   dropped; the transaction comes later. *)
ReplaceUserRoles(o, S) ==
  /\ replace[o].pc = "idle" /\ person
  /\ replace' = [replace EXCEPT ![o] = [pc |-> "begin", want |-> S, wrote |-> {}]]
  /\ asked' = asked \cup {S}
  /\ UNCHANGED <<person, granted, holder, providerVars>>

handleReplaceUserRoles(o, S) == ReplaceUserRoles(o, S)

(* The DELETE waits for the locks of another transaction. *)
DeleteRoles(o) ==
  /\ replace[o].pc = "begin" /\ holder = Nobody
  /\ holder' = o
  /\ replace' = [replace EXCEPT ![o].pc = "insert"]
  /\ UNCHANGED <<person, granted, asked, providerVars>>

(* One INSERT per role; the foreign key refuses it when the user is gone. *)
InsertRole(o) ==
  /\ replace[o].pc = "insert" /\ person
  /\ \E r \in replace[o].want \ replace[o].wrote :
       replace' = [replace EXCEPT ![o].wrote = @ \cup {r}]
  /\ UNCHANGED <<person, granted, asked, holder, providerVars>>

(* A plausible slip: err is declared anew inside the loop, and the deferred function,
   which looks at the outer one, commits. *)
Rollback_Shadowed(o) == granted' = IF person THEN replace[o].wrote ELSE {}
Rollback(o) == UNCHANGED granted

(* A statement fails; the deferred function rolls back. *)
ReplaceFails(o) ==
  /\ replace[o].pc = "insert"
  /\ Rollback(o)
  /\ holder' = Nobody
  /\ replace' = [replace EXCEPT ![o] = NoReplace]
  /\ UNCHANGED <<person, asked, providerVars>>

(* Everything is inserted: the deferred function commits, and whether that failed is
   not asked. *)
CommitRoles(o) ==
  /\ replace[o].pc = "insert" /\ replace[o].wrote = replace[o].want
  /\ granted' \in {granted, IF person THEN replace[o].wrote ELSE {}}
  /\ holder' = Nobody
  /\ replace' = [replace EXCEPT ![o] = NoReplace]
  /\ UNCHANGED <<person, asked, providerVars>>

(* Deleting the user cascades to the role rows and waits for the locks on them; a
   transaction that found no row and has inserted none locks nothing in its way. *)
RemoveUser ==
  /\ person
  /\ holder # Nobody => granted = {} /\ replace[holder].wrote = {}
  /\ person' = FALSE /\ granted' = {}
  /\ UNCHANGED <<asked, replace, holder, providerVars>>
-----------------------------------------------------------------------------
(* Identity providers.                                                      *)

CreateIdentityProvider(id, enabled) ==
  /\ providers[id] = Nobody
  /\ providers' = [providers EXCEPT ![id] = enabled]
(* UPDATE by id; no row is an error. *)
UpdateProviderRow(id, enabled) ==
  /\ providers[id] # Nobody
  /\ providers' = [providers EXCEPT ![id] = enabled]
(* Only what the request names is set, and it must name something. *)
UpdateIdentityProvider(id, enabled) == UpdateProviderRow(id, enabled)

handleCreateAuthProvider(id, enabled) ==
  CreateIdentityProvider(id, enabled) /\ UNCHANGED <<rolesVars, registry, default, boot>>
handleUpdateAuthProvider(id, enabled) ==
  UpdateIdentityProvider(id, enabled) /\ UNCHANGED <<rolesVars, registry, default, boot>>

RegisterProvider(name, makeDefault) ==
  /\ registry' = registry \cup {name}
  /\ default' = IF makeDefault \/ default = Nobody THEN name ELSE default

UnregisterProvider_Dangling(name) == registry' = registry \ {name} /\ UNCHANGED default

(* Another one of the map becomes the default, in no order. *)
UnregisterProvider(name) ==
  /\ registry' = registry \ {name}
  /\ IF default # name THEN UNCHANGED default
     ELSE IF registry = {name} THEN default' = Nobody
          ELSE default' \in registry \ {name}

(* configureAuthProviders: local logins may be switched off, then LDAP and OIDC are
   registered if they are configured; either may ask to be the default. *)
configureAuthProviders ==
  /\ boot # "done"
  /\ \/ /\ boot = "local" /\ boot' = "ldap"
        /\ UnregisterProvider("password") \/ UNCHANGED <<registry, default>>
     \/ /\ boot = "ldap" /\ boot' = "oidc"
        /\ (\E d \in BOOLEAN : RegisterProvider("ldap", d)) \/ UNCHANGED <<registry, default>>
     \/ /\ boot = "oidc" /\ boot' = "done"
        /\ (\E d \in BOOLEAN : RegisterProvider("oidc", d)) \/ UNCHANGED <<registry, default>>
  /\ UNCHANGED <<rolesVars, providers>>

(* The provider of a login: the one it names, or the default. *)
resolveProvider(method) ==
  LET name == IF method = Nobody THEN default ELSE method
  IN IF name \in registry THEN name ELSE Nobody

(* NewService has the local provider, as the default. *)
DirectoryInit ==
  /\ person = TRUE /\ granted \in SUBSET DirectoryRoles /\ asked = {granted}
  /\ replace = [o \in Operators |-> NoReplace] /\ holder = Nobody
  /\ providers = [id \in ProviderIds |-> Nobody]
  /\ registry = {"password"} /\ default = "password" /\ boot = "local"

DirectoryNext ==
  \/ \E o \in Operators :
       \/ \E S \in SUBSET DirectoryRoles : handleReplaceUserRoles(o, S)
       \/ DeleteRoles(o) \/ InsertRole(o) \/ ReplaceFails(o) \/ CommitRoles(o)
  \/ RemoveUser
  \/ \E id \in ProviderIds, enabled \in BOOLEAN :
       handleCreateAuthProvider(id, enabled) \/ handleUpdateAuthProvider(id, enabled)
  \/ configureAuthProviders

DirectorySpec == DirectoryInit /\ [][DirectoryNext]_directoryVars
-----------------------------------------------------------------------------
(* Whatever replacements overlap, fail half way or meet the deletion of the user, the
   user has the roles one call asked for, never some of one call and some of another. *)
RolesWhole == IF person THEN granted \in asked ELSE granted = {}

(* A login that names no provider reaches one whenever the process has any, whatever
   the configuration switches off or makes the default. *)
DefaultServes == registry # {} => resolveProvider(Nobody) # Nobody

(* Both, of the one directory (ReplaceUserRoles, UnregisterProvider). *)
DirectorySound == RolesWhole /\ DefaultServes

=============================================================================
