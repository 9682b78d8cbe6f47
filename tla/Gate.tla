--------------------------------- MODULE Gate ---------------------------------
(***************************************************************************)
(* The channel membership gate in front of the bot's handlers              *)
(* (app/services/membership.py, app/bot/handlers/membership.py), for one   *)
(* user who is no administrator: a message passes when the gate is off,    *)
(* when no channel is required, or when the user is a member of the        *)
(* required channels, as Telegram is asked channel by channel or as the    *)
(* answer of the last ninety seconds says.  The panel runs in another      *)
(* process, so that its changes never empty this cache.  The bot keeps a   *)
(* copy of the panel's file until the file's time of change is another,    *)
(* also when it could not read the file and took it for "off".             *)
(***************************************************************************)
EXTENDS Naturals

CONSTANTS
  Channels,   \* rows of membership_channels
  Checks      \* updates of the user that are handled at the same time

VARIABLES
  enabled,    \* membership.json
  config,     \* _CONFIG_CACHE: what the bot has read in the file as it is
  required,   \* the channels that are active and required
  joined,     \* the channels the user is a member of, at Telegram
  cache,      \* _CACHE of the user
  check,      \* check[k]: the handler of an update
  answer,     \* what the user saw last
  trouble     \* calls of Telegram and reads of the file may fail, or the bot die

gateVars == <<enabled, config, required, joined, cache, check, answer, trouble>>
world == <<enabled, required, joined, trouble>>

-----------------------------------------------------------------------------
(* The age of an entry: new, old, and over _CACHE_TTL_SECONDS.             *)
TTL == 2
Entry == [age : 0..TTL, joined : BOOLEAN]
NoEntry == [age |-> TTL, joined |-> TRUE]

(* pending: required channels still to ask; missing: one is not joined.    *)
Handler == [at : {"idle", "gated", "asking"}, force : BOOLEAN,
            pending : SUBSET Channels, missing : BOOLEAN]
NoHandler == [at |-> "idle", force |-> FALSE, pending |-> {}, missing |-> FALSE]

Goes(k, next) == check' = [check EXCEPT ![k] = next]
Answers(k, passes) == Goes(k, NoHandler) /\ answer' = IF passes THEN "passed" ELSE "blocked"

(* load_gate_config: the copy answers while the file is unchanged, else    *)
(* the file is read.  A file that cannot be read counts as off, which is   *)
(* then the copy; when its time cannot be had either, there is no copy.    *)
SeesGate(on) ==
  \/ config # "none" /\ on = (config = "on") /\ UNCHANGED config
  \/ config = "none" /\ on = enabled /\ config' = IF on THEN "on" ELSE "off"
  \/ trouble /\ on = FALSE /\ config' \in (IF config = "none" THEN {"off", "none"} ELSE {"none"})

-----------------------------------------------------------------------------
(* A message or a button: with the gate off it goes on to its handler.     *)
Arrive(k) ==
  /\ check[k] = NoHandler
  /\ \/ SeesGate(TRUE) /\ Goes(k, [NoHandler EXCEPT !.at = "gated"]) /\ UNCHANGED answer
     \/ SeesGate(FALSE) /\ Answers(k, TRUE)
  /\ UNCHANGED <<world, cache>>

(* The button of the gate, which stays in the chat, forgets the entry and  *)
(* asks again.                                                             *)
Verify(k) ==
  /\ check[k] = NoHandler
  /\ answer # "none"
  /\ cache' = NoEntry
  /\ Goes(k, [NoHandler EXCEPT !.at = "gated", !.force = TRUE])
  /\ UNCHANGED <<world, config, answer>>

(* gate_enabled: the file says on and a channel is required.               *)
Gated(k) == check[k].at = "gated" /\ SeesGate(TRUE) /\ required # {}

(* Mutant: an entry answers whatever its age.                              *)
HitStale(k) ==
  /\ Gated(k)
  /\ ~check[k].force
  /\ Answers(k, cache.joined)
  /\ UNCHANGED <<world, cache>>

(* Mutant: an entry that answers counts as fresh again.                    *)
HitSliding(k) ==
  /\ Gated(k)
  /\ ~check[k].force /\ cache.age < TTL
  /\ Answers(k, cache.joined)
  /\ cache' = [cache EXCEPT !.age = 0]
  /\ UNCHANGED world

(* The head of check_membership: a valid entry answers.                    *)
Hit(k) ==
  /\ Gated(k)
  /\ ~check[k].force /\ cache.age < TTL
  /\ Answers(k, cache.joined)
  /\ UNCHANGED <<world, cache>>

(* No entry: the required channels are to be asked.                        *)
BeginCheck(k) ==
  /\ Gated(k)
  /\ check[k].force \/ cache.age = TTL
  /\ Goes(k, [check[k] EXCEPT !.at = "asking", !.force = FALSE, !.pending = required])
  /\ UNCHANGED <<world, cache, answer>>

(* The gate is off, or nothing is required.                                *)
PassOpen(k) ==
  /\ check[k].at = "gated"
  /\ SeesGate(FALSE) \/ (SeesGate(TRUE) /\ required = {})
  /\ Answers(k, TRUE)
  /\ UNCHANGED <<world, cache>>

(* getChatMember of the next channel.                                      *)
Ask(k, c) ==
  /\ check[k].at = "asking" /\ c \in check[k].pending
  /\ Goes(k, [check[k] EXCEPT !.pending = @ \ {c}, !.missing = @ \/ c \notin joined])
  /\ UNCHANGED <<world, config, cache, answer>>

(* The call fails: some errors count as missing, the others let pass.      *)
AskFails(k, c, missing) ==
  /\ check[k].at = "asking" /\ c \in check[k].pending
  /\ trouble
  /\ Goes(k, [check[k] EXCEPT !.pending = @ \ {c}, !.missing = @ \/ missing])
  /\ UNCHANGED <<world, config, cache, answer>>

(* The end of check_membership, over whatever another handler has stored.  *)
Store(k) ==
  /\ check[k].at = "asking" /\ check[k].pending = {}
  /\ cache' = [age |-> 0, joined |-> ~check[k].missing]
  /\ Answers(k, ~check[k].missing)
  /\ UNCHANGED <<world, config>>

-----------------------------------------------------------------------------
(* The user joins and leaves; the panel writes the file and the channels.  *)
Join(c) ==
  /\ c \notin joined
  /\ joined' = joined \cup {c}
  /\ UNCHANGED <<enabled, config, required, cache, check, answer, trouble>>

Leave(c) ==
  /\ c \in joined
  /\ joined' = joined \ {c}
  /\ UNCHANGED <<enabled, config, required, cache, check, answer, trouble>>

(* save_gate_config replaces the file, also by one that says the same.     *)
Toggle(on) ==
  /\ enabled' = on /\ config' = "none"
  /\ UNCHANGED <<required, joined, cache, check, answer, trouble>>

Require(c) ==
  /\ c \notin required
  /\ required' = required \cup {c}
  /\ UNCHANGED <<enabled, config, joined, cache, check, answer, trouble>>

Drop(c) ==
  /\ c \in required
  /\ required' = required \ {c}
  /\ UNCHANGED <<enabled, config, joined, cache, check, answer, trouble>>

(* Mutant: an entry goes on ageing past its end.                           *)
ElapsePast ==
  /\ cache' = [cache EXCEPT !.age = @ + 1]
  /\ UNCHANGED <<world, config, check, answer>>

Elapse ==
  /\ cache.age < TTL
  /\ cache' = IF cache.age + 1 = TTL THEN NoEntry ELSE [cache EXCEPT !.age = @ + 1]
  /\ UNCHANGED <<world, config, check, answer>>

(* Trouble comes and goes.                                                 *)
Turn ==
  /\ trouble' = ~trouble
  /\ UNCHANGED <<enabled, config, required, joined, cache, check, answer>>

(* The bot process dies, and with it the cache and the copy of the file.   *)
GateDies ==
  /\ trouble
  /\ cache' = NoEntry /\ config' = "none"
  /\ check' = [k \in Checks |-> NoHandler]
  /\ UNCHANGED <<world, answer>>

GateInit ==
  /\ enabled = FALSE /\ config = "none" /\ required = {} /\ joined = {}
  /\ cache = NoEntry
  /\ check = [k \in Checks |-> NoHandler]
  /\ answer = "none" /\ trouble = FALSE

Handle(k) ==
  \/ Hit(k) \/ BeginCheck(k) \/ PassOpen(k) \/ Store(k)
  \/ \E c \in Channels : Ask(k, c)

GateNext ==
  \/ \E k \in Checks : Arrive(k) \/ Verify(k) \/ Handle(k)
  \/ \E k \in Checks, c \in Channels, missing \in BOOLEAN : AskFails(k, c, missing)
  \/ \E c \in Channels : Join(c) \/ Leave(c) \/ Require(c) \/ Drop(c)
  \/ \E on \in BOOLEAN : Toggle(on)
  \/ Elapse \/ Turn

(* Handlers come to an end, time passes, and the user goes on writing.     *)
GateFairness ==
  /\ \A k \in Checks : WF_gateVars(Handle(k))
  /\ WF_gateVars(Elapse)
  /\ WF_gateVars(\E k \in Checks : Arrive(k))

GateTypeOK ==
  /\ enabled \in BOOLEAN /\ config \in {"none", "on", "off"}
  /\ required \subseteq Channels /\ joined \subseteq Channels
  /\ cache \in Entry
  /\ check \in [Checks -> Handler]
  /\ answer \in {"none", "passed", "blocked"}
  /\ trouble \in BOOLEAN

(* A user who has joined the channels, and stays in them, is at last let   *)
(* in for good once Telegram answers and the process lives, whatever the   *)
(* panel requires: no answer of before, neither cached nor written late by *)
(* a slow check, keeps him out.                                            *)
JoinedGetsIn == <>[](joined = Channels /\ ~trouble) => <>[](answer # "blocked")

(* The bot has taken a file that says "on" for one that says "off".        *)
Misread == enabled /\ config = "off"

(* A user who has left the required channels for good, while the gate is   *)
(* on, is at last turned away for good once Telegram answers and the       *)
(* process lives: no answer of before, and no check that began before,     *)
(* keeps him in.  One thing does: a single read of the panel's file that   *)
(* failed, which the bot remembers until the file is written again.        *)
LeaverIsStopped ==
  <>[](enabled /\ required # {} /\ joined = {} /\ ~trouble)
    => <>[](answer = "blocked") \/ <>[]Misread
=============================================================================
