---------------------------- MODULE Notifications ----------------------------
(***************************************************************************)
(* Notification settings: the SMTP, SMS and webhook configurations and the *)
(* list of channels, each kept in memory, copied to a file by every save   *)
(* and read back at start; the dispatcher, whose senders are built from a  *)
(* channel and, for email, the SMTP configuration of that moment; and the  *)
(* messages sent through it.                                               *)
(***************************************************************************)
EXTENDS Naturals

CONSTANTS NotifyAdmins,          \* API callers
          Channels,        \* channel names, compared without case
          MaxSaves,        \* saves that are accepted
          MaxFileFaults,   \* os.WriteFile calls that may fail
          MaxStarts        \* restarts of the process

VARIABLES mem,         \* the settings in memory
          files,       \* the settings on disk
          senders,     \* dispatcher.channels
          caller,      \* where each API call is
          recent,      \* lastSMTPTest is less than five seconds old
          saves, fileFaults, starts,
          overlapped   \* settings two calls have been saving at the same time

notifyVars == <<mem, files, senders, caller, recent, saves, fileFaults, starts, overlapped>>

Kinds == {"smtp", "sms", "webhook", "channels"}
NoSender == [type |-> "none", target |-> 0, host |-> 0]
NoChannel == [type |-> "none", target |-> 0]
Unset == [smtp |-> [host |-> 0, pwd |-> 0],
          sms |-> 0,
          webhook |-> [url |-> 0, alt |-> 0],
          channels |-> [c \in Channels |-> NoChannel]]
NoCall == [pc |-> "idle", kind |-> "none", data |-> 0, channel |-> "none", answer |-> "none"]

NotifyInit ==
  /\ mem = Unset /\ files = Unset
  /\ senders = [c \in Channels |-> NoSender]
  /\ caller = [a \in NotifyAdmins |-> NoCall]
  /\ recent = FALSE /\ saves = 0 /\ fileFaults = 0 /\ starts = 0 /\ overlapped = {}

CallAt(a, pc) == caller[a].pc = pc
Saving(a, k) == caller[a].kind = k /\ caller[a].pc \in {"list", "copy", "write"}
\* The call starts to save a setting: another one may be doing so already.
CallStarts(a, k, next, data, c) ==
  /\ saves < MaxSaves /\ saves' = saves + 1
  /\ caller' = [caller EXCEPT ![a] = [pc |-> next, kind |-> k, data |-> data, channel |-> c, answer |-> "none"]]
  /\ overlapped' = IF \E b \in NotifyAdmins \ {a} : Saving(b, k) THEN overlapped \cup {k} ELSE overlapped

----------------------------------------------------------------------------
(* The senders.                                                            *)

\* An email channel needs a configured server; other types are refused.
Registrable(ch, smtp) == ch.type = "webhook" \/ (ch.type = "email" /\ smtp.host # 0)

\* The sender built from a channel: email copies the SMTP configuration.
NewSender(ch, smtp) ==
  [type |-> ch.type, target |-> ch.target, host |-> IF ch.type = "email" THEN smtp.host ELSE 0]

registerNotificationChannel(c, ch) ==
  /\ Registrable(ch, mem.smtp)
  /\ senders' = [senders EXCEPT ![c] = NewSender(ch, mem.smtp)]

----------------------------------------------------------------------------
(* Saving a setting: memory first, then a copy of it, then the file.       *)

handleUpsertNotificationChannel(a) ==
  /\ CallAt(a, "idle")
  /\ \E c \in Channels, ty \in {"webhook", "email"}, n \in 1..2 :
       LET ch == [type |-> ty, target |-> n] IN
       /\ registerNotificationChannel(c, ch)
       /\ CallStarts(a, "channels", "list", ch, c)
  /\ UNCHANGED <<mem, files, recent, fileFaults, starts>>

ListChannel(a) ==
  /\ CallAt(a, "list")
  /\ mem' = [mem EXCEPT !.channels[caller[a].channel] = caller[a].data]
  /\ caller' = [caller EXCEPT ![a].pc = "copy"]
  /\ UNCHANGED <<files, senders, recent, saves, fileFaults, starts, overlapped>>

\* A blank password keeps the one that is stored.
handleSaveSMTPConfig(a) ==
  /\ CallAt(a, "idle")
  /\ \E h \in 1..2, p \in 0..1 :
       mem' = [mem EXCEPT !.smtp = [host |-> h, pwd |-> IF p = 0 THEN @.pwd ELSE p]]
  /\ CallStarts(a, "smtp", "copy", 0, "none")
  /\ UNCHANGED <<files, senders, recent, fileFaults, starts>>

handleSaveSMSConfig(a) ==
  /\ CallAt(a, "idle")
  /\ mem' = [mem EXCEPT !.sms = 1]
  /\ CallStarts(a, "sms", "copy", 0, "none")
  /\ UNCHANGED <<files, senders, recent, fileFaults, starts>>

\* A URL or a channel's own address is enough.
handleSaveWebhookConfig(a) ==
  /\ CallAt(a, "idle")
  /\ \E u \in 0..1, v \in 0..1 :
       /\ u + v > 0
       /\ mem' = [mem EXCEPT !.webhook = [url |-> u, alt |-> v]]
  /\ CallStarts(a, "webhook", "copy", 0, "none")
  /\ UNCHANGED <<files, senders, recent, fileFaults, starts>>

\* Mutant: the file is written from the copy an earlier save made.
Copied_File(k) == files[k]

Copied(k) == mem[k]

persistConfig(a) ==
  /\ CallAt(a, "copy")
  /\ caller' = [caller EXCEPT ![a].pc = "write", ![a].data = Copied(caller[a].kind)]
  /\ UNCHANGED <<mem, files, senders, recent, saves, fileFaults, starts, overlapped>>

\* A failed write of the SMTP configuration or of the channels is not reported.
WriteFile(a) ==
  /\ CallAt(a, "write")
  /\ \E ok \in BOOLEAN :
       /\ ok \/ fileFaults < MaxFileFaults
       /\ files' = IF ok THEN [files EXCEPT ![caller[a].kind] = caller[a].data] ELSE files
       /\ fileFaults' = IF ok THEN fileFaults ELSE fileFaults + 1
       /\ caller' = [caller EXCEPT ![a] =
            [NoCall EXCEPT !.answer = IF ok \/ caller[a].kind \in {"smtp", "channels"} THEN "saved" ELSE "failed"]]
  /\ UNCHANGED <<mem, senders, recent, saves, starts, overlapped>>

----------------------------------------------------------------------------
(* Start: the files are read in the order NewHTTPServer reads them.        *)

loadSMTPConfig == IF files.smtp.host # 0 THEN files.smtp ELSE Unset.smtp
loadSMSConfig == files.sms
\* A configuration without a URL is not taken over.
loadWebhookConfig == IF files.webhook.url # 0 THEN files.webhook ELSE Unset.webhook

\* Mutant: the channels are registered before the SMTP configuration is read.
loadNotificationChannels_First ==
  [c \in Channels |-> IF Registrable(files.channels[c], Unset.smtp)
                        THEN NewSender(files.channels[c], Unset.smtp) ELSE NoSender]

loadNotificationChannels ==
  [c \in Channels |-> IF Registrable(files.channels[c], loadSMTPConfig)
                        THEN NewSender(files.channels[c], loadSMTPConfig) ELSE NoSender]

Restart ==
  /\ starts < MaxStarts /\ starts' = starts + 1
  /\ mem' = [smtp |-> loadSMTPConfig, sms |-> loadSMSConfig,
             webhook |-> loadWebhookConfig, channels |-> files.channels]
  /\ senders' = loadNotificationChannels
  /\ caller' = [a \in NotifyAdmins |-> NoCall]
  /\ recent' = FALSE
  /\ UNCHANGED <<files, saves, fileFaults, overlapped>>

----------------------------------------------------------------------------
(* Sending.                                                                *)

\* Dispatch skips a channel without a sender and reports no error for it.
Dispatch(c, ok) == IF senders[c] = NoSender THEN "skipped" ELSE IF ok THEN "sent" ELSE "failed"

handleSendNotificationTest(a) ==
  /\ CallAt(a, "idle")
  /\ \E c \in Channels, ok \in BOOLEAN :
       caller' = [caller EXCEPT ![a] = [NoCall EXCEPT
         !.channel = c, !.data = Dispatch(c, ok),
         !.answer = IF Dispatch(c, ok) = "failed" THEN "bad gateway" ELSE "delivered"]]
  /\ UNCHANGED <<mem, files, senders, recent, saves, fileFaults, starts, overlapped>>

\* The test goes to the first address that is configured.
handleTestWebhookConfig(a) ==
  /\ CallAt(a, "idle") /\ mem.webhook # Unset.webhook
  /\ \E ok \in BOOLEAN : caller' = [caller EXCEPT ![a] = [NoCall EXCEPT !.answer = IF ok THEN "tested" ELSE "failed"]]
  /\ UNCHANGED <<mem, files, senders, recent, saves, fileFaults, starts, overlapped>>

\* Checked before the mail, noted after it: two tests at once both pass.
handleTestSMTPConfig(a) ==
  /\ CallAt(a, "idle") /\ mem.smtp.host # 0 /\ ~recent
  /\ caller' = [caller EXCEPT ![a] = [NoCall EXCEPT !.pc = "mail"]]
  /\ UNCHANGED <<mem, files, senders, recent, saves, fileFaults, starts, overlapped>>

sendSMTPMessage(a) ==
  /\ CallAt(a, "mail")
  /\ \E ok \in BOOLEAN :
       /\ caller' = [caller EXCEPT ![a] = [NoCall EXCEPT !.answer = IF ok THEN "tested" ELSE "failed"]]
       /\ recent' = (recent \/ ok)
  /\ UNCHANGED <<mem, files, senders, saves, fileFaults, starts, overlapped>>

FiveSeconds ==
  /\ recent /\ recent' = FALSE
  /\ UNCHANGED <<mem, files, senders, caller, saves, fileFaults, starts, overlapped>>

NotifyNext ==
  \/ \E a \in NotifyAdmins :
       \/ handleUpsertNotificationChannel(a) \/ ListChannel(a) \/ handleSaveSMTPConfig(a)
       \/ handleSaveSMSConfig(a) \/ handleSaveWebhookConfig(a) \/ persistConfig(a) \/ WriteFile(a)
       \/ handleSendNotificationTest(a) \/ handleTestWebhookConfig(a)
       \/ handleTestSMTPConfig(a) \/ sendSMTPMessage(a)
  \/ Restart \/ FiveSeconds

NotifySpec == NotifyInit /\ [][NotifyNext]_notifyVars

----------------------------------------------------------------------------

(* A restart leaves no listed channel mute: one that had a sender of the   *)
(* type it is listed with (no other type was registered and not listed     *)
(* yet) has one again when its entry and the SMTP configuration had        *)
(* reached the disk.                                                       *)
RestartKeeps ==
  [][ starts' # starts =>
        \A c \in Channels :
          (senders[c] # NoSender /\ mem.channels[c] # NoChannel
             /\ senders[c].type = mem.channels[c].type
             /\ files.channels[c] = mem.channels[c] /\ files.smtp = mem.smtp)
            => senders'[c] # NoSender ]_notifyVars

(* At rest the disk holds what the memory holds: no save of the setting is *)
(* running, none overlapped another, no write failed.  A webhook           *)
(* configuration without a URL is the exception loadWebhookConfig makes.   *)
PersistedAtRest ==
  \A k \in Kinds :
    (fileFaults = 0 /\ k \notin overlapped /\ \A a \in NotifyAdmins : ~Saving(a, k))
      => IF k = "webhook" THEN files.webhook.url = 1 => files.webhook = mem.webhook
                          ELSE files[k] = mem[k]

=============================================================================
