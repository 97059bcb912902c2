----------------------------- MODULE IotRegistry -----------------------------
(***************************************************************************)
(* The IoT registry: devices and the profiles they refer to.  UpsertDevice *)
(* and UpdateProfile read a row, change it and write it back in separate   *)
(* statements; the tables' keys decide what a write does: device_id is     *)
(* unique, and a device's profile_id is a foreign key that becomes NULL    *)
(* when the profile is deleted, a value the row type cannot hold.          *)
(***************************************************************************)
EXTENDS Naturals

CONSTANTS Callers,      \* API calls running at the same time
          Devices, Profiles,
          Uuids,        \* identifiers uuid.NewString may draw
          MaxSeen       \* heartbeat times

VARIABLES iotDevices,   \* rows of iot_devices by device_id
          iotProfiles,  \* rows of iot_device_profiles
          now,          \* the time of the last heartbeat
          work          \* the calls

iotVars == <<iotDevices, iotProfiles, now, work>>

NullRef == "NULL"
NoRow == [id |-> "none", profile |-> NullRef, status |-> "none", seen |-> 0]
NoProfile == [class |-> "none", capable |-> FALSE]
NoWork == [pc |-> "idle", device |-> "none", profile |-> "none", row |-> NoRow, copy |-> NoProfile]

IotInit ==
  /\ iotDevices = [d \in Devices |-> NoRow]
  /\ iotProfiles = [p \in Profiles |-> NoProfile]
  /\ now = 0
  /\ work = [c \in Callers |-> NoWork]

WorkAt(c, pc) == work[c].pc = pc
Returns(c) == work' = [work EXCEPT ![c] = NoWork]
Registered(d) == iotDevices[d] # NoRow
LiveProfile(p) == p \in Profiles /\ iotProfiles[p] # NoProfile
Drawn == {iotDevices[d].id : d \in Devices} \cup {work[c].row.id : c \in Callers}

\* Anything but DORMANT and RETIRED is ACTIVE.
normalizeStatus(s) == IF s \in {"DORMANT", "RETIRED"} THEN s ELSE "ACTIVE"
\* A blank class follows the sleepy flag; anything but SLEEPY is NORMAL.
normalizeSleepClass(class, sleepy) ==
  IF class = "SLEEPY" \/ (class = "" /\ sleepy) THEN "SLEEPY" ELSE "NORMAL"

----------------------------------------------------------------------------
(* The tables.                                                             *)

\* A row with a NULL profile cannot be scanned into the row type.
GetDevice(d) == IF ~Registered(d) THEN "not found"
                ELSE IF iotDevices[d].profile = NullRef THEN "scan error" ELSE "found"

\* One bad row fails the whole listing.
ListDevices == \A d \in Devices : GetDevice(d) # "scan error"

\* Mutant: the row is replaced, its identifier with it.
UpsertRow_Replace(d, row) == row

\* ON DUPLICATE KEY UPDATE leaves the identifier of the row that is there.
UpsertRow(d, row) == IF Registered(d) THEN [row EXCEPT !.id = iotDevices[d].id] ELSE row

RecordSeen(d, t, s) == [iotDevices EXCEPT ![d].seen = t, ![d].status = normalizeStatus(s)]

\* ON DELETE SET NULL.
Unreferenced(p) == [d \in Devices |-> IF iotDevices[d].profile = p
                                       THEN [iotDevices[d] EXCEPT !.profile = NullRef] ELSE iotDevices[d]]

----------------------------------------------------------------------------
(* The service and its handlers.                                           *)

\* The row the caller will write: a new one under a new identifier, or the
\* stored one with the fields of the request.  The profile may be blank.
Prepared(d, p, s, old) ==
  [NoWork EXCEPT !.pc = "upsert", !.device = d,
               !.row = [old EXCEPT !.profile = p, !.status = normalizeStatus(s)]]

UpsertDevice(c, d) ==
  /\ WorkAt(c, "idle")
  /\ \E p \in Profiles \cup {""}, s \in {"", "RETIRED"} :
       CASE GetDevice(d) = "scan error" -> Returns(c)
         [] GetDevice(d) = "found" -> work' = [work EXCEPT ![c] = Prepared(d, p, s, iotDevices[d])]
         [] OTHER -> \E u \in Uuids \ Drawn :
              work' = [work EXCEPT ![c] = Prepared(d, p, s, [NoRow EXCEPT !.id = u])]
  /\ UNCHANGED <<iotDevices, iotProfiles, now>>

\* The foreign key refuses a profile that is blank or gone.
UpsertDeviceRow(c) ==
  /\ WorkAt(c, "upsert")
  /\ LET r == work[c].row  d == work[c].device IN
     IF LiveProfile(r.profile)
       THEN iotDevices' = [iotDevices EXCEPT ![d] = UpsertRow(d, r)] /\ Returns(c)
       ELSE UNCHANGED iotDevices /\ Returns(c)
  /\ UNCHANGED <<iotProfiles, now>>

DeleteDevice(c, d) ==
  /\ WorkAt(c, "idle")
  /\ iotDevices' = [iotDevices EXCEPT ![d] = NoRow]
  /\ Returns(c)
  /\ UNCHANGED <<iotProfiles, now>>

\* One UPDATE, whatever profile the row has.
RecordHeartbeat(c, d) ==
  /\ WorkAt(c, "idle") /\ now < MaxSeen /\ now' = now + 1
  /\ \E s \in {"", "DORMANT"} :
       iotDevices' = IF Registered(d) THEN RecordSeen(d, now', s) ELSE iotDevices
  /\ Returns(c)
  /\ UNCHANGED iotProfiles

CreateProfile(c, p) ==
  /\ WorkAt(c, "idle") /\ ~LiveProfile(p)
  /\ \E class \in {"", "SLEEPY"}, sleepy \in BOOLEAN :
       iotProfiles' = [iotProfiles EXCEPT ![p] = [class |-> normalizeSleepClass(class, sleepy), capable |-> sleepy]]
  /\ Returns(c)
  /\ UNCHANGED <<iotDevices, now>>

\* The profile is read first and written by the next statement.
UpdateProfile(c, p) ==
  /\ WorkAt(c, "idle")
  /\ work' = [work EXCEPT ![c] = IF LiveProfile(p) THEN [NoWork EXCEPT !.pc = "profile", !.profile = p, !.copy = iotProfiles[p]]
                                            ELSE NoWork]
  /\ UNCHANGED <<iotDevices, iotProfiles, now>>

\* A blank class without the flag keeps the class; the flag is overwritten.
Changed(old, class, sleepy) ==
  [class |-> IF class # "" \/ sleepy THEN normalizeSleepClass(class, sleepy \/ old.capable) ELSE old.class,
   capable |-> sleepy]

UpdateProfileRow(c) ==
  /\ WorkAt(c, "profile")
  /\ \E class \in {"", "SLEEPY"}, sleepy \in BOOLEAN :
       iotProfiles' = [p \in Profiles |-> IF p = work[c].profile /\ LiveProfile(p)
                                           THEN Changed(work[c].copy, class, sleepy) ELSE iotProfiles[p]]
  /\ Returns(c)
  /\ UNCHANGED <<iotDevices, now>>

DeleteProfile(c, p) ==
  /\ WorkAt(c, "idle") /\ LiveProfile(p)
  /\ iotProfiles' = [iotProfiles EXCEPT ![p] = NoProfile]
  /\ iotDevices' = Unreferenced(p)
  /\ Returns(c)
  /\ UNCHANGED now

handleDeviceSave(c) == \E d \in Devices : UpsertDevice(c, d)
handleDeviceDelete(c) == \E d \in Devices : DeleteDevice(c, d)
handleDeviceHeartbeat(c) == \E d \in Devices : RecordHeartbeat(c, d)
handleProfileCreate(c) == \E p \in Profiles : CreateProfile(c, p)
handleProfileUpdate(c) == \E p \in Profiles : UpdateProfile(c, p)
handleProfileDelete(c) == \E p \in Profiles : DeleteProfile(c, p)

IotNext ==
  \E c \in Callers :
    \/ handleDeviceSave(c) \/ UpsertDeviceRow(c) \/ handleDeviceDelete(c) \/ handleDeviceHeartbeat(c)
    \/ handleProfileCreate(c) \/ handleProfileUpdate(c) \/ UpdateProfileRow(c) \/ handleProfileDelete(c)

IotSpec == IotInit /\ [][IotNext]_iotVars

----------------------------------------------------------------------------
(* A registered device keeps its identifier however its registrations and  *)
(* updates interleave: two calls that both found no row register one       *)
(* device, under one of their identifiers.                                 *)
IdStable ==
  [][ \A d \in Devices : Registered(d) /\ iotDevices'[d] # NoRow => iotDevices'[d].id = iotDevices[d].id ]_iotVars

=============================================================================
