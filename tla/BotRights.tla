------------------------------- MODULE BotRights -------------------------------
(***************************************************************************)
(* What the bot believes of its own place in one chat: the list of chats   *)
(* it is in (knownchats.go, storage/knownchats), written by the updates    *)
(* Telegram sends, and the rights shown for a protected chat, written by   *)
(* those updates, by the goroutine a connection starts (connection.go) and *)
(* by the sweeps of CheckRights (setup_bot.go), each of which asks         *)
(* Telegram without a lock and writes the answer later.                    *)
(***************************************************************************)
EXTENDS Integers

CONSTANTS
    Sweepers,     \* what checks the rights: the loop and requests
    Loop,         \* RunAccessRightsChecker
    NoAnswer,     \* no call has been answered
    MaxChanges,   \* bound on changes of the bot's place in the chat
    MaxAdds,      \* bound on protections of the chat
    MaxFaults     \* bound on failing calls to Redis and restarts of the process

\* Out of the chat, in it without rights, or with the right to restrict and invite.
Status == {"out", "member", "admin"}

\* The bot's place at Telegram: barred is restricted there without being a member.
Standing == Status \cup {"barred"}

\* What an update says of it: castUpdate drops IsMember, and restricted is in.
Said(s) == IF s = "barred" THEN "member" ELSE s

\* What CheckAccessUser says of it.
Access(s) == IF s = "barred" THEN "out" ELSE s

\* Trouble with the rights, and what kind an answer of CheckAccessUser is.
Kinds == {"member", "restrict"}

Trouble(answer) == IF answer = "out" THEN "member" ELSE "restrict"

Updates == 1..MaxChanges  \* my_chat_member updates, in Telegram's order

ASSUME RightsAssumption ==
    /\ {MaxChanges, MaxAdds, MaxFaults} \subseteq Nat
    /\ Loop \in Sweepers /\ NoAnswer \notin Status

VARIABLES
    standing,   \* the bot's place, as Telegram has it
    changes,
    update,     \* what each update says and how far its handler is
    known,      \* d.knownChats: the status there, "out" for no entry
    stored,     \* the same in Redis
    protected,  \* the chat is in d.protectedChannels and has a record
    listed,     \* the chat has an entry in d.channels
    rights,     \* botOnChannel, botCanClean, botCanInvite of the entry
    connecting,
    done,       \* the latest connectDone
    refresher,  \* the goroutine of refreshConnectedChat
    adder,      \* a request that protects the chat
    sweeper,    \* calls of CheckRights
    notices,    \* noticeTimes of the chat: the kinds of trouble with a date more
                \* recent than the interval between two notices
    adds, faults,
    reply,      \* history: what became of the status message of the latest share,
                \* excused by a removal, a failing call or a restart
    heard,      \* history: the kinds of trouble a notice of has been delivered,
                \* since the rights were last as they should be
    missed,     \* history: the latest update was lost or could not be stored
    orphaned    \* history: a refresh found the chat removed

chat == <<standing, changes>>
list == <<known, stored>>
entry == <<listed, rights, connecting, done>>
telling == <<notices, heard>>
bounds == <<adds, faults>>
vars == <<chat, update, list, protected, entry, refresher, adder, reply, sweeper, telling, bounds,
          missed, orphaned>>

-----------------------------------------------------------------------------
Handled == {"rights", "store"}

InHand(i) == update[i].at \in Handled

GoTo(i, s) == update' = [update EXCEPT ![i].at = s]

Fault == faults < MaxFaults /\ faults' = faults + 1

Init ==
    /\ standing = "out"
    /\ changes = 0
    /\ update = [i \in Updates |-> [says |-> "out", at |-> "unsent"]]
    /\ known = "out" /\ stored = "out"
    /\ protected = FALSE
    /\ listed = FALSE /\ rights = "out" /\ connecting = FALSE
    /\ done = "closed"
    /\ refresher = [at |-> "idle", answer |-> NoAnswer]
    /\ adder = "idle"
    /\ sweeper = [w \in Sweepers |-> [at |-> "idle", answer |-> NoAnswer]]
    /\ notices = {} /\ heard = {}
    /\ reply = "none"
    /\ adds = 0 /\ faults = 0
    /\ missed = FALSE /\ orphaned = FALSE

-----------------------------------------------------------------------------
(* BotMembershipHandler. *)

\* Somebody adds, promotes, demotes or removes the bot.
Change(s) ==
    /\ s # standing
    /\ changes < MaxChanges
    /\ standing' = s
    /\ changes' = changes + 1
    /\ update' = [update EXCEPT ![changes'] = [says |-> Said(s), at |-> "sent"]]
    /\ UNCHANGED <<list, protected, entry, refresher, adder, reply, sweeper, telling, bounds,
                   missed, orphaned>>

\* Mutant: every update has a goroutine of its own, as the library would have it.
NextInTurnAsync(i) ==
    /\ update[i].at = "sent"
    /\ \A j \in Updates : j < i => update[j].at # "sent"

\* Updates come in Telegram's order, and one at a time: WithNotAsyncHandlers.
\* The same goroutine runs the handler that a share sets to work.
NextInTurn(i) ==
    /\ update[i].at = "sent"
    /\ \A j \in Updates : j < i => update[j].at = "done"
    /\ adder \notin {"share", "shareRefresh"}

\* The list in memory first.
BotMembershipHandler(i) ==
    /\ NextInTurn(i)
    /\ known' = update[i].says
    /\ missed' = FALSE
    /\ GoTo(i, IF update[i].says = "out" THEN "rights" ELSE "store")
    /\ UNCHANGED <<chat, stored, protected, entry, refresher, adder, reply, sweeper, telling, bounds,
                   orphaned>>

\* A chat the bot left loses its rights if it has an entry; a chat it is in gets
\* them if it is protected.
Forbid(i) ==
    /\ update[i].at = "rights" /\ update[i].says = "out"
    /\ rights' = IF listed THEN "out" ELSE rights
    /\ GoTo(i, "store")
    /\ UNCHANGED <<chat, list, protected, listed, connecting, done, refresher, adder, reply,
                   sweeper, telling, bounds, missed, orphaned>>

Grant(i) ==
    /\ update[i].at = "rights" /\ update[i].says # "out"
    /\ rights' = update[i].says /\ listed' = TRUE
    /\ GoTo(i, "done")
    /\ UNCHANGED <<chat, list, protected, connecting, done, refresher, adder, reply,
                   sweeper, telling, bounds, missed, orphaned>>

Stored(i) == GoTo(i, IF update[i].says # "out" /\ protected THEN "rights" ELSE "done")

\* Mutant: a chat that was left is forgotten in memory only.
StoreKnownOnly(i) ==
    /\ update[i].at = "store"
    /\ stored' = IF update[i].says = "out" THEN stored ELSE update[i].says
    /\ Stored(i)
    /\ UNCHANGED <<chat, known, protected, entry, refresher, adder, reply, sweeper, telling, bounds,
                   missed, orphaned>>

\* StoreKnownChat or DropKnownChat.
Store(i) ==
    /\ update[i].at = "store"
    /\ stored' = update[i].says
    /\ Stored(i)
    /\ UNCHANGED <<chat, known, protected, entry, refresher, adder, reply, sweeper, telling, bounds,
                   missed, orphaned>>

\* A failure is logged; a write that timed out may have been applied.
StoreFails(i) ==
    /\ update[i].at = "store"
    /\ Fault
    /\ stored' \in {stored, update[i].says}
    /\ missed' = TRUE
    /\ Stored(i)
    /\ UNCHANGED <<chat, known, protected, entry, refresher, adder, reply, sweeper, telling,
                   adds, orphaned>>

-----------------------------------------------------------------------------
(* Protecting the chat, and the goroutine that asks for the rights then. *)

Begins(s) ==
    /\ adder = "idle"
    /\ adds < MaxAdds
    /\ adder' = s /\ adds' = adds + 1
    /\ reply' = IF s = "share" THEN "none" ELSE reply
    /\ UNCHANGED <<chat, update, list, protected, entry, refresher, sweeper, telling,
                   faults, missed, orphaned>>

\* ConnectChat is for chats the bot knows; before the next step the bot may leave
\* and somebody else protect the chat.
ConnectChat == known # "out" /\ ~protected /\ Begins("connect")

\* AddChannelCallbackHandler
Share == (\A i \in Updates : ~InHand(i)) /\ Begins("share")

\* Mutant: the entry that the sweeps go through is not made.
PublishedOnly == protected' = TRUE /\ listed' = listed

\* AddDefaultProtectedChannel: a chat that is protected already stays so.
Published == protected' = TRUE /\ listed' = TRUE

Protect ==
    /\ adder \in {"connect", "share"}
    /\ Published
    /\ adder' = IF adder = "share" THEN "shareRefresh" ELSE "connectRefresh"
    /\ UNCHANGED <<chat, update, list, rights, connecting, done, refresher, reply, sweeper,
                   telling, bounds, missed, orphaned>>

\* AddChannel of the dashboard, which checks all rights next (a sweep).
AddChannel ==
    /\ adds < MaxAdds
    /\ adds' = adds + 1
    /\ Published
    /\ UNCHANGED <<chat, update, list, rights, connecting, done, refresher, adder, reply,
                   sweeper, telling, faults, missed, orphaned>>

\* CleanProtectedChannel leaves the entry in d.channels.
Remove ==
    /\ protected
    /\ protected' = FALSE
    /\ reply' = IF adder \in {"shareRefresh", "wait"} THEN "excused" ELSE reply
    /\ UNCHANGED <<chat, update, list, entry, refresher, adder, sweeper, telling, bounds,
                   missed, orphaned>>

\* A refresh under way is shared.  After a share another goroutine waits for it.
RefreshConnectedChat ==
    /\ adder \in {"connectRefresh", "shareRefresh"}
    /\ adder' = IF adder = "shareRefresh" THEN "wait" ELSE "idle"
    /\ \/ /\ connecting
          /\ UNCHANGED <<entry, refresher>>
       \/ /\ ~connecting
          /\ listed' = TRUE /\ connecting' = TRUE /\ done' = "open"
          /\ refresher' = [refresher EXCEPT !.at = "ask"]
          /\ UNCHANGED rights
    /\ UNCHANGED <<chat, update, list, protected, reply, sweeper, telling, bounds, missed,
                   orphaned>>

\* GetChat and CheckAccessUser; NoAnswer when Telegram gives an error.
RefreshAsk ==
    /\ refresher.at = "ask"
    /\ \E answer \in {Access(standing), NoAnswer} : refresher' = [at |-> "apply", answer |-> answer]
    /\ UNCHANGED <<chat, update, list, protected, entry, adder, reply, sweeper, telling, bounds,
                   missed, orphaned>>

\* Mutant: an error ends the goroutine before it says that it is done connecting.
ConnectedIfAnswered == IF refresher.answer = NoAnswer THEN connecting ELSE FALSE

Connected == FALSE

RefreshApply ==
    /\ refresher.at = "apply" /\ protected
    /\ connecting' = Connected
    /\ rights' = IF refresher.answer = NoAnswer THEN rights ELSE refresher.answer
    /\ done' = "closed"
    /\ refresher' = [at |-> "idle", answer |-> NoAnswer]
    /\ UNCHANGED <<chat, update, list, protected, listed, adder, reply, sweeper, telling, bounds,
                   missed, orphaned>>

\* Mutant: the channel is closed at the end of the goroutine, not deferred.
ClosedOnReturn == done

\* defer close(done)
Closed == "closed"

\* The chat was removed meanwhile: the entry goes on connecting, and whoever
\* protects the chat again finds the closed channel of this refresh.
RefreshLeaves ==
    /\ refresher.at = "apply" /\ ~protected
    /\ done' = Closed
    /\ refresher' = [at |-> "idle", answer |-> NoAnswer]
    /\ orphaned' = TRUE
    /\ UNCHANGED <<chat, update, list, protected, listed, rights, connecting, adder, reply,
                   sweeper, telling, bounds, missed>>

\* Mutant: there is no message when the rights are not known.
SentIfKnown == IF rights = "out" THEN "none" ELSE "told"

Sent == "told"

\* The goroutine a share leaves behind, when the channel is closed.  A message that
\* cannot be sent is logged, and of a chat that is not protected any more there is none.
SendAddedChannelStatus ==
    /\ adder = "wait" /\ done = "closed"
    /\ adder' = "idle"
    /\ \/ protected /\ reply' = Sent
       \/ protected /\ reply' = "excused"
       \/ ~protected /\ reply' = reply
    /\ UNCHANGED <<chat, update, list, protected, entry, refresher, sweeper, telling, bounds,
                   missed, orphaned>>

-----------------------------------------------------------------------------
(* CheckRights: updateBotAccessRights of this chat. *)

Sweep(w, at, answer) == sweeper' = [sweeper EXCEPT ![w] = [at |-> at, answer |-> answer]]

SweepBegin(w) ==
    /\ sweeper[w].at = "idle"
    /\ listed /\ protected
    /\ Sweep(w, "ask", NoAnswer)
    /\ UNCHANGED <<chat, update, list, protected, entry, refresher, adder, reply, telling, bounds,
                   missed, orphaned>>

SweepAsk(w) ==
    /\ sweeper[w].at = "ask"
    /\ Sweep(w, "apply", Access(standing))
    /\ UNCHANGED <<chat, update, list, protected, entry, refresher, adder, reply, telling, bounds,
                   missed, orphaned>>

SweepFails(w) ==
    /\ sweeper[w].at = "ask"
    /\ Sweep(w, "idle", NoAnswer)
    /\ UNCHANGED <<chat, update, list, protected, entry, refresher, adder, reply, telling, bounds,
                   missed, orphaned>>

\* Mutant: a chat that is connecting is left to its own goroutine.
AppliedUnlessConnecting(w) == IF connecting THEN rights ELSE sweeper[w].answer

Applied(w) == sweeper[w].answer

SweepApply(w) ==
    /\ sweeper[w].at = "apply"
    /\ rights' = Applied(w)
    /\ Sweep(w, "notice", sweeper[w].answer)
    /\ UNCHANGED <<chat, update, list, protected, listed, connecting, done, refresher,
                   adder, reply, telling, bounds, missed, orphaned>>

Muted(kind) == kind \in notices

\* notifyRightsIssue dates a notice before it is sent; rights as they should be forget
\* them.  The chat is one with AllowClean, as ConnectChat and a share make it.
SweepNotice(w) ==
    /\ sweeper[w].at = "notice"
    /\ LET answer == sweeper[w].answer
           kind   == Trouble(answer)
       IN  \/ /\ answer = "admin"
              /\ notices' = {} /\ heard' = {}
              /\ Sweep(w, "idle", NoAnswer)
           \/ /\ answer # "admin" /\ Muted(kind)
              /\ Sweep(w, "idle", NoAnswer)
              /\ UNCHANGED telling
           \/ /\ answer # "admin" /\ ~Muted(kind)
              /\ notices' = notices \cup {kind}
              /\ Sweep(w, "send", answer)
              /\ UNCHANGED heard
    /\ UNCHANGED <<chat, update, list, protected, entry, refresher, adder, reply, bounds,
                   missed, orphaned>>

\* notifyControlChats, and the administrator when that reaches nobody.
SweepSend(w) ==
    /\ sweeper[w].at = "send"
    /\ heard' = heard \cup {Trouble(sweeper[w].answer)}
    /\ Sweep(w, "idle", NoAnswer)
    /\ UNCHANGED <<chat, update, list, protected, entry, refresher, adder, reply, notices, bounds,
                   missed, orphaned>>

\* Neither gets it: logged, and the date stays.
SweepSendFails(w) ==
    /\ sweeper[w].at = "send"
    /\ Sweep(w, "idle", NoAnswer)
    /\ UNCHANGED <<chat, update, list, protected, entry, refresher, adder, reply, telling, bounds,
                   missed, orphaned>>

\* Mutant: whether there is a date is asked, not how old it is.
DatedForGood(kind) == kind \in notices /\ UNCHANGED vars

\* The hours between two notices of a kind (IntervalHours) are over.
IntervalEnds(kind) ==
    /\ kind \in notices
    /\ notices' = notices \ {kind}
    /\ UNCHANGED <<chat, update, list, protected, entry, refresher, adder, reply, sweeper, heard,
                   bounds, missed, orphaned>>

-----------------------------------------------------------------------------
\* The process dies.  Run makes the entries from the records, loads the list of
\* chats, and polls for updates before it registers what handles them: the first
\* of those that are waiting may find nobody.
Restart(first, loads) ==
    /\ Fault
    /\ known' = IF loads THEN stored ELSE "out"
    /\ LET lost(i) == InHand(i) \/ (update[i].at = "sent" /\ i <= first)
       IN  /\ update' = [i \in Updates |-> IF lost(i) THEN [update[i] EXCEPT !.at = "done"]
                                           ELSE update[i]]
           /\ missed' = (missed \/ ~loads \/ \E i \in Updates : lost(i))
    /\ listed' = protected /\ rights' = "out" /\ connecting' = FALSE
    /\ done' = "closed"
    /\ refresher' = [at |-> "idle", answer |-> NoAnswer]
    /\ adder' = "idle"
    /\ sweeper' = [w \in Sweepers |-> [at |-> "idle", answer |-> NoAnswer]]
    /\ notices' = {} /\ heard' = {}
    /\ reply' = "excused"
    /\ orphaned' = FALSE
    /\ UNCHANGED <<chat, stored, protected, adds>>

Handle(i) ==
    \/ BotMembershipHandler(i) \/ Forbid(i) \/ Grant(i) \/ Store(i) \/ StoreFails(i)

Connection == RefreshConnectedChat \/ RefreshAsk \/ RefreshApply \/ RefreshLeaves
              \/ SendAddedChannelStatus

SweepStep(w) ==
    \/ SweepBegin(w) \/ SweepAsk(w) \/ SweepFails(w) \/ SweepApply(w) \/ SweepNotice(w)
    \/ SweepSend(w) \/ SweepSendFails(w)

Next ==
    \/ \E s \in Standing : Change(s)
    \/ \E i \in Updates : Handle(i)
    \/ ConnectChat \/ Share \/ Protect \/ AddChannel \/ Remove
    \/ Connection
    \/ \E w \in Sweepers : SweepStep(w)
    \/ \E kind \in Kinds : IntervalEnds(kind)
    \/ \E first \in 0..MaxChanges, loads \in BOOLEAN : Restart(first, loads)

Spec == Init /\ [][Next]_vars

LoopStep == SweepBegin(Loop) \/ SweepApply(Loop) \/ SweepNotice(Loop) \/ SweepSendFails(Loop)

\* Every call has a timeout and returns, so a connection goes on; the loop begins
\* again and again, of its calls for a chat the bot is in not all fail, and of its
\* notices not all are lost; time passes.
FairSpec ==
    /\ Spec
    /\ WF_vars(Connection) /\ WF_vars(LoopStep)
    /\ SF_vars(standing \in {"member", "admin"} /\ SweepAsk(Loop))
    /\ SF_vars(SweepSend(Loop))
    /\ WF_vars(IntervalEnds("restrict"))

-----------------------------------------------------------------------------
\* Besides the types: what is protected has the entry that the sweeps go through.
TypeOK ==
    /\ standing \in Standing /\ known \in Status /\ stored \in Status /\ rights \in Status
    /\ update \in [Updates -> [says : Status, at : Handled \cup {"unsent", "sent", "done"}]]
    /\ protected \in BOOLEAN /\ listed \in BOOLEAN /\ connecting \in BOOLEAN
    /\ missed \in BOOLEAN /\ orphaned \in BOOLEAN
    /\ done \in {"open", "closed"}
    /\ refresher \in [at : {"idle", "ask", "apply"}, answer : Status \cup {NoAnswer}]
    /\ adder \in {"idle", "connect", "share", "connectRefresh", "shareRefresh", "wait"}
    /\ reply \in {"none", "told", "excused"}
    /\ sweeper \in [Sweepers -> [at : {"idle", "ask", "apply", "notice", "send"},
                                 answer : Status \cup {NoAnswer}]]
    /\ notices \subseteq Kinds /\ heard \subseteq Kinds
    /\ changes \in Nat /\ adds \in Nat /\ faults \in Nat
    /\ protected => listed

Quiet == \A i \in Updates : update[i].at \in {"unsent", "done"}

\* knownchats.go:73, "tracks chats containing the bot": with every update handled,
\* memory and Redis have the bot's place as Telegram's last update has it, unless
\* Redis failed or a start lost that update.  A bot that is restricted and outside
\* counts as inside.
KnownMatches == Quiet /\ ~missed => known = Said(standing) /\ stored = Said(standing)

\* Once nobody changes anything, the rights shown of a protected chat the bot is in
\* become those it has and stay so, whatever old answers are still to be written.
RightsSettle == <>[](protected /\ standing \in {"member", "admin"} => rights = standing)

\* A chat does not go on connecting, unless it was removed while its rights were
\* asked for.
ConnectingEnds == connecting /\ ~orphaned ~> ~connecting \/ orphaned

\* Who shared a chat is sent what became of it, whether Telegram answered or not and
\* whoever else connects the chat, unless the chat was removed meanwhile, the message
\* failed, or the process restarted.
ShareIsAnswered == adder = "wait" ~> reply \in {"told", "excused"}

\* A bot that stays in a protected chat without the right to restrict: some notice of
\* that is delivered, although a notice is dated before it is sent, a lost one mutes
\* the next, and there may have been one of another kind before.
TroubleIsAnnounced ==
    <>[](protected /\ standing = "member") => <>[]("restrict" \in heard)
=============================================================================
