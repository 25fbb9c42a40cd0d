----------------------------- MODULE CommandBot -----------------------------
(***************************************************************************)
(* The Telegram command channel (src/src/notify/telegram_bot.py), the      *)
(* handlers that switch the managed cycle, log in and price                *)
(* (src/src/emcure/commands.py), and the token file they share with the    *)
(* tracker (src/src/execution/broker.py).  Telegram keeps an update until a *)
(* getUpdates call asks for a later one.                                   *)
(***************************************************************************)
EXTENDS Integers, Sequences

CONSTANTS
  BotDays, MaxUpdates,   \* bounds of the model
  FreshTokens,           \* request tokens a login page can hand out
  LowerToken, UpperToken,
  CommandSet,            \* commands the user sends
  BotFaults, MaxBotFaults

ASSUME BotAssumption ==
  /\ BotDays \in Nat \ {0} /\ MaxUpdates \in Nat /\ MaxBotFaults \in Nat
  /\ FreshTokens \subseteq {LowerToken, UpperToken} /\ LowerToken # UpperToken

VARIABLES
  bday,
  bserver,     \* updates at Telegram, oldest first
  boffset,     \* the poller's next offset
  bbatch,      \* fetched and not handled yet
  bnext,       \* number of the next update
  bhalted,     \* the switch in the managed cycle's state file
  bfile,       \* day of the token file, Torn while it is being written
  bsaving,     \* the processes that are writing it
  bcache,      \* session day of the cached KiteBroker
  bengine,     \* session day of the tracker's broker
  bfaults,
  bhist        \* history, for the properties only

bVars == <<bday, bserver, boffset, bbatch, bnext, bhalted, bfile, bsaving, bcache,
           bengine, bfaults, bhist>>

TornFile == -1
Unmade == -1      \* no KiteBroker has been built yet
NoSession == 0

Updates == 1 .. MaxUpdates

BInit ==
  /\ bday = 1 /\ bserver = <<>> /\ boffset = 0 /\ bbatch = <<>> /\ bnext = 1
  /\ bhalted = FALSE
  /\ bfile = 0 /\ bsaving = {} /\ bcache = Unmade /\ bengine = NoSession
  /\ bfaults = 0
  /\ bhist = [runs |-> [u \in Updates |-> 0], lost |-> {},
              restarted |-> FALSE, refused |-> FALSE, delayed |-> FALSE]

BFault(kind) == /\ kind \in BotFaults /\ bfaults < MaxBotFaults
                /\ bfaults' = bfaults + 1

-----------------------------------------------------------------------------
(* The user writes in the chat: a command, or something that is none. *)
UserSends(cmd) ==
  /\ bnext <= MaxUpdates
  /\ bserver' = Append(bserver, [id |-> bnext, cmd |-> cmd])
  /\ bnext' = bnext + 1
  /\ UNCHANGED <<bday, boffset, bbatch, bhalted, bfile, bsaving, bcache, bengine,
                 bfaults, bhist>>

(* _get_updates: asking from an offset on drops what is older.  The answer may
   be lost. *)
Poll ==
  /\ bbatch = <<>> /\ "bot" \notin bsaving
  /\ \E k \in 0 .. Len(bserver) :
       /\ \A i \in DOMAIN bserver : bserver[i].id < boffset <=> i <= k
       /\ bserver' = SubSeq(bserver, k + 1, Len(bserver))
  /\ \/ bbatch' = bserver' /\ UNCHANGED bfaults
     \/ BFault("noanswer") /\ UNCHANGED bbatch
  /\ bserver' # bserver \/ bbatch' # bbatch
  /\ UNCHANGED <<bday, boffset, bnext, bhalted, bfile, bsaving, bcache, bengine, bhist>>

\* Mutant: the offset stays at the update that was handled.
TakenUnconfirmed == /\ bbatch # <<>>
                    /\ boffset' = Head(bbatch).id

(* A handled update is confirmed by the next call only. *)
Taken == /\ bbatch # <<>>
         /\ boffset' = Head(bbatch).id + 1

Counted == [runs |-> [bhist.runs EXCEPT ![Head(bbatch).id] = @ + 1],
            lost |-> bhist.lost \ {Head(bbatch).id},
            restarted |-> bhist.restarted, refused |-> bhist.refused, delayed |-> bhist.delayed]

(* HALT and RESUME, by set_halted on the state file. *)
HandleSwitch ==
  /\ Taken /\ Head(bbatch).cmd \in {"HALT", "RESUME"}
  /\ bhalted' = (Head(bbatch).cmd = "HALT")
  /\ bbatch' = Tail(bbatch) /\ bhist' = Counted
  /\ UNCHANGED <<bday, bserver, bnext, bfile, bsaving, bcache, bengine, bfaults>>

(* The poller and the webhook split the message after upper(). *)
Uppered(token) == IF token = LowerToken THEN UpperToken ELSE token

(* TOKEN: a KiteBroker of its own exchanges the token; _save_token truncates
   the file, then writes it. *)
HandleToken ==
  /\ Taken /\ Head(bbatch).cmd = "TOKEN"
  /\ \E issued \in FreshTokens :
       IF Uppered(issued) = issued
       THEN /\ bfile' = TornFile /\ bsaving' = bsaving \cup {"bot"}
            /\ bhist' = Counted
       ELSE /\ UNCHANGED <<bfile, bsaving>>
            /\ bhist' = [Counted EXCEPT !.refused = TRUE]
  /\ bbatch' = Tail(bbatch)
  /\ UNCHANGED <<bday, bserver, bnext, bhalted, bcache, bengine, bfaults>>

(* The file a new KiteBroker loads, if it is of today. *)
Loaded == IF bfile = bday THEN bday ELSE NoSession

(* The cached broker of _kite_broker: built once, asked for its profile. *)
Cached == IF bcache = Unmade THEN Loaded ELSE bcache

(* live_price, for STATUS and SELL: Kite when the session is of today, else the
   delayed quote. *)
HandlePrice ==
  /\ Taken /\ Head(bbatch).cmd = "STATUS"
  /\ bcache' = Cached
  /\ bhist' = [Counted EXCEPT !.delayed = @ \/ (bengine = bday /\ Cached # bday)]
  /\ bbatch' = Tail(bbatch)
  /\ UNCHANGED <<bday, bserver, bnext, bhalted, bfile, bsaving, bengine, bfaults>>

(* Commands that change nothing, other text, other chats, updates without a
   message. *)
HandleOther ==
  /\ Taken /\ Head(bbatch).cmd = "other"
  /\ bhist' = Counted /\ bbatch' = Tail(bbatch)
  /\ UNCHANGED <<bday, bserver, bnext, bhalted, bfile, bsaving, bcache, bengine, bfaults>>

Handle == /\ "bot" \notin bsaving
          /\ HandleSwitch \/ HandleToken \/ HandlePrice \/ HandleOther

Resumes == boffset' = Head(bbatch).id + 1

(* A handler that raises loses its command: the offset is past it.  The rest of
   the batch is fetched again. *)
HandlerRaises ==
  /\ bbatch # <<>> /\ "bot" \notin bsaving /\ BFault("raise")
  /\ Resumes
  /\ bbatch' = <<>>
  /\ bhist' = [bhist EXCEPT !.lost = @ \cup {Head(bbatch).id}]
  /\ UNCHANGED <<bday, bserver, bnext, bhalted, bfile, bsaving, bcache, bengine>>

(* A process ends its write of the token file. *)
FinishSave(who) ==
  /\ who \in bsaving
  /\ bfile' = bday /\ bsaving' = bsaving \ {who}
  /\ bengine' = IF who = "engine" THEN bday ELSE bengine
  /\ UNCHANGED <<bday, bserver, boffset, bbatch, bnext, bhalted, bcache, bfaults, bhist>>

(* The bot is killed and started again. *)
BotRestarts ==
  /\ BFault("crash")
  /\ bbatch' = <<>> /\ boffset' = 0 /\ bcache' = Unmade
  /\ bsaving' = bsaving \ {"bot"}
  /\ bhist' = [bhist EXCEPT !.restarted = TRUE]
  /\ UNCHANGED <<bday, bserver, bnext, bhalted, bfile, bengine>>

-----------------------------------------------------------------------------
(* The tracker's morning: it logs in and writes the token file, or it goes
   without a broker. *)
MorningLogin ==
  /\ bengine # bday /\ bengine # Unmade /\ "engine" \notin bsaving
  /\ \/ /\ bfile' = TornFile /\ bsaving' = bsaving \cup {"engine"}
        /\ UNCHANGED <<bengine, bfaults>>
     \/ /\ BFault("login") /\ bengine' = Unmade
        /\ UNCHANGED <<bfile, bsaving>>
  /\ UNCHANGED <<bday, bserver, boffset, bbatch, bnext, bhalted, bcache, bhist>>

BNextDay ==
  /\ bday < BotDays /\ bsaving = {} /\ bengine # NoSession
  /\ bday' = bday + 1
  /\ UNCHANGED <<bserver, boffset, bbatch, bnext, bhalted, bfile, bsaving, bcache,
                 bengine, bfaults, bhist>>

BNext == \/ \E cmd \in CommandSet : UserSends(cmd)
         \/ Poll \/ Handle \/ HandlerRaises \/ BotRestarts
         \/ \E who \in {"bot", "engine"} : FinishSave(who)
         \/ MorningLogin \/ BNextDay

(* The poller's loop catches what it raises and goes on. *)
BotFairness == WF_bVars(Poll) /\ WF_bVars(Handle) /\ WF_bVars(FinishSave("bot"))

BSpec == BInit /\ [][BNext]_bVars /\ BotFairness

-----------------------------------------------------------------------------
BTypeOK ==
  /\ bday \in 1 .. BotDays
  /\ \A i \in DOMAIN bserver : bserver[i].id \in 1 .. bnext - 1
  /\ boffset \in 0 .. bnext /\ bnext \in 1 .. MaxUpdates + 1
  /\ bhalted \in BOOLEAN /\ bfile \in -1 .. bday
  /\ bsaving \subseteq {"bot", "engine"} /\ bcache \in -1 .. bday
  /\ bengine \in -1 .. bday /\ bfaults \in 0 .. MaxBotFaults

(* A poller that is not restarted runs each command at most once, although an
   update stays at Telegram until the call after it was handled, answers get
   lost and handlers raise. *)
RunsOnce == ~ bhist.restarted => \A u \in Updates : bhist.runs[u] <= 1

(* No command vanishes: what the user sent is handled in the end, unless its
   own handler raised. *)
EveryCommandIsHandled ==
  \A u \in Updates :
    (bnext > u) ~> (bhist.runs[u] > 0 \/ u \in bhist.lost)

(* The HALT and RESUME commands at Telegram that are behind the offset and did
   not raise: those that were carried out, not to say how often. *)
CarriedOut(i) == /\ bserver[i].cmd \in {"HALT", "RESUME"} /\ bserver[i].id < boffset
                 /\ bserver[i].id \notin bhist.lost

(* The last switch wins: the cycle is halted exactly when the last HALT or
   RESUME that was carried out says so, even though a restart runs the
   unconfirmed commands again. *)
LastSwitchWins ==
  \A i \in DOMAIN bserver :
    CarriedOut(i) /\ (\A j \in DOMAIN bserver : CarriedOut(j) => j <= i)
      => bhalted = (bserver[i].cmd = "HALT")

(* "Complete Zerodha Kite daily auth by exchanging a request_token"
   (commands.py:352): a request token that was just issued is accepted. *)
TokenLogsIn == ~ bhist.refused

(* live_price is "the same price the trading engine acts on" (commands.py:69):
   while the tracker has its session, the bot does not fall back to the delayed
   quote. *)
PriceIsTheEngines == ~ bhist.delayed

(* Commands are carried out in order, once each by a poller that lives, the
   last switch deciding, and none is left unhandled. *)
CommandsRunInOrder ==
  /\ [](BTypeOK /\ RunsOnce /\ LastSwitchWins)
  /\ EveryCommandIsHandled
=============================================================================
