# Pokecatch: TLA+ models, model checking and proofs

This directory is the verification project for the game in `src/`: TLA+ modules that
model its services, the battle server and the offline client, the TLC configurations that
check them on small instances, and theorems that TLAPS proves for every instance.

To parse, check or prove: `tlasany M.tla`, `tlc -config X.cfg M.tla`, and `tlapm M.tla` for
each of `ProfileProofs`, `FormulaProofs`, `SessionProofs`, `WSProofs`, `AuthProofs`,
`BattleProofs`, `MatchmakingProofs` and `OfflineProofs`. Which configuration goes with which
module is in the `runs` of `PROJECT.json`.

## The system

Paths are relative to `src/services` unless they start with `src/`.

| part | state it keeps | operations | reached from |
|---|---|---|---|
| Trade manager, `profile/internal/trade.go` | map of trades, one mutex `mu` | Open, Stage, Lock, Commit, Cancel, Get | HTTP handlers, a goroutine per request |
| Collection and evolution, `profile/internal/collection.go`, `evolve.go` | none of its own | SetTeam, GetTeam, List, Evolve | HTTP handlers |
| Profile repositories, `repo_memory.go`, `repo_postgres.go` | creature rows, saved teams | UpdateCreature, TransferBatch, SetTeam | the two above |
| Match session, `battle/internal/netcode/session.go` | pending intents, inbox channel, turn timer, done channel | Submit, Run | read pumps call Submit; Run is a goroutine |
| WebSocket transport, `netcode/ws.go` | table from player to connection, spectators | Attach, readPump, Send, Spectate | Run sends; pumps read, and answer resyncs themselves |
| Battle engine, `battle/internal/engine` | battlers, stages, conditions, cooldowns, winner | ResolveTurn | only the run loop, in principle |
| Battle AI, `battle/internal/ai`, and the bots of `battle/cmd/demo` | none | ChooseAction, decide | a bot's goroutine, which plays one side of a session |
| Replay recorder | a log of turns | re-simulation against a digest | commands |
| Auth, `auth/internal` | accounts, refresh tokens | Register, Login, Refresh | HTTP handlers |
| Matchmaking, `matchmaking/internal/matcher.go` | none (pure) | Pair | a caller with a snapshot of the queue |
| Gateway, `gateway/internal/gateway.go` | rate-limiter buckets | proxy, Allow | every client request |
| Offline game, `src/client-godot/scripts/Game.gd`, `GameData.gd`, `BattleEngine.gd` | screen, team, counters, a save file | taps on buttons | the player; the phone may kill it |
| Domain data, `src/pkg` | element chart, stat formulas, species | pure functions | engine, profile |

How they interact: the gateway authenticates and proxies to auth, profile and battle over
HTTP; profile's trade manager and collection share one repository and nothing else, so the
mutex of the first says nothing to the second; a read pump hands intents to the session
through a bounded channel; the session owns the engine and answers through the transport;
the offline game shares no code with any of them.

What is hard in it, and the properties that make each part correct:

* Concurrent requests with reads before writes: Stage, SetTeam and Evolve each check rows
  they then do not hold, on a repository that other requests write to. Correct means: a
  lock counts only for the offers it was placed on, creatures change hands only when an
  agreed trade settles, whole; parties stay well formed; evolution follows the Dex.
* Failure: a repository call may fail in the middle of a request, a committed transaction
  may report an error, a restart forgets all trades. Correct means: an error changes
  nothing and gives the mutex back.
* Channels and timers in the session: a full inbox, intents that race the timer, a second
  frame of one player, a match that ends while pumps are blocked. Correct means: one
  legal intent per side and turn, the first; a turn always comes; Submit always returns.
* Connections that overlap: the old pump's deferred cleanup against a new Attach; a resync
  that reads the battle in mid-turn and is written a turn late; a lock held while spectators
  are written to. Correct means: the table holds live connections and a registered player
  catches up.
* Bots: two numberings of a party, the best two options found in one pass. Correct means: a bot
  always decides, for a switch that the engine carries out or a skill that its standing battler
  has (which may be cooling down, and then fizzles), and errs by one rank at most.
* Long sequences of legal turns: conditions, stages, cooldowns, switches and several
  battlers at zero HP in one turn. Correct means: the match ends exactly when it is
  decided, and none of these leaks over a switch or a knock-out.
* Rotation of refresh tokens, unique emails: read, check, write in separate store calls.
* The limiter's windows start with a request, not with a clock. Correct means: a bound on any
  interval, and nobody refused who has been quiet.
* Pairing: a scan that breaks early. Correct means: nobody twice, nobody unfairly, and of two
  who could have been matched and are both left, the higher-rated one is behind somebody whom
  the lower-rated one could not take.
* The save file: written in place, at different moments of the game, by a process that
  can be killed, on storage that may refuse. Correct means: nothing is lost while the game runs,
  and a restart loses only what was won since the last save that worked, unless the file is torn.

`PROJECT.json` lists the components with their sources, and each hazard at its line
with the properties that cover it, or the reason why none does.

## The modules

| module | models | composed with |
|---|---|---|
| `Repo` | the creature table and the batch transfer of both backends, as operators | extended by `Profile` |
| `Profile` | trade manager, SetTeam, Evolve, restarts | `Repo`; refines `Escrow` |
| `Escrow` | what trading promises, abstractly | |
| `Session` | run loop, inbox, timer, read pumps | engine as a choice; refines `Match` |
| `Match` | what a match promises, abstractly | |
| `WSTransport` | connection table, Send, pump cleanup, resync, spectators' lock | read pumps by their exit only |
| `Elements` | the element chart | extended by `Formulas` |
| `Formulas` | stats, natures, XP, stages, accuracy and damage as exact fractions | extended by `Battle` |
| `Battle` | ResolveTurn and everything under it | |
| `Bots` | ChooseAction and the demonstration bot's decide | extends `Battle`, reads its states |
| `Auth` | Register, Login, Refresh over a store | |
| `Gateway` | the rate limiter | |
| `Ingress` | refreshes that pass the limiter on their way to the service | `Auth` and `Gateway`; implements `Auth` |
| `Matchmaking` | Pair | |
| `OfflineGame` | the single-player client and its save file | |
| `MC...` | instances of these for TLC: rosters, id lists, symmetry | |
| `...Proofs` | theorems; `FormulaProofs` is about `Elements` and `Formulas`, `AuthProofs` about `Auth` and `Ingress`, each other one about the module it is named for | |

### Profile, Repo, Escrow

The state is the code's: `creatures` and `teams` are the tables, `trade` and `mu` the
fields of TradeManager, and `req` holds what the goroutine of a request has on its stack.
`agreed` is a history variable: the offers on the table when an account last locked.

Open, Lock, Commit and Cancel hold `mu` for their whole duration and make at most one
repository call, so each is one action. Stage (under `mu`), SetTeam and Evolve (without it)
make several calls and are split at each: `StageBegin`, `TeamBegin` and `EvolveRead` start
a request, `CheckPasses`, `CheckFails` and `RepoError` are one read of a row, `StageFinish`,
`TeamFinish` and `EvolveWrite` the write. A rejection that changes nothing is a disabled
action. `CommitAckLost` is the transaction that commits while TransferBatch returns an
error; the constant `AckLoss` says whether a run has it. `Backend` picks the repository.

`Escrow` knows deals, terms, consent and owners; no requests, locks or id lists. `Profile`
maps a trade to a deal with the offers as sets and the locks as consent (`DealOf`), and
`ImplementsEscrow` is Escrow's specification under that mapping.

### Session, Match

`pc` is where Run is: before the loop, at the top of a turn, in `select`, in ResolveTurn,
returned. `inbox` is the channel with its capacity, `pump` what each read pump is doing:
`Reading`, or blocked in Submit with the intent it carries. `Accept`, `Timeout` and `Cancel`
are the cases of the select. Several pumps may stand for one account, or for an account
that takes no part. ResolveTurn is two steps, with a free outcome in between; `late` marks
what was on its way when a turn ended (history).

`Match` knows one choice per side, a verdict and a status; no inbox, connections or timer.
`Session` maps its pending intents to the choices (`ChoiceOf`: empty while no turn is open),
`over` to the verdict, and where Run has returned to the status (`MatchStatus`).
`ImplementsMatch` is Match's specification under that mapping: Accept, Timeout and the like are
Choose or a stutter, EndResolve is Resolve, Finish is Announce, a cancelled context is Abandon.

Fairness: the run loop is one goroutine that the Go scheduler runs (`WF(LoopStep)`); the
timer of a select that stays open fires (`WF(Timeout)`); Go's select picks at random among
ready cases, so a case that is ready again and again is taken (`SF(Accept)`), and blocked
senders of a channel are served in order (`SF(Enqueue)`); a pump that sees the closed done
channel is scheduled (`WF(Drop)`). Nothing is assumed about clients or about cancellation.

### WSTransport

`players` is the table, `sock` and `pump` the two ends of a connection: the socket may be
down while the pump has not noticed. Send is split at its unlock: `SendPick` reads the entry
under the lock, `SendWrite` writes afterwards. `behind` (history) holds the players that have
not got the current state.

A resync is answered by the pump itself, in two halves. `ResyncRead` takes the snapshot with no
lock; when the run loop is not sending it may be in ResolveTurn, so what is read may be a
state the battle never was in ("wrong"). `ResyncWrite` writes it to the same connection; a turn
that is broadcast in between overtakes it (`Overtaken`), and the late snapshot then puts the
client back. A broadcast of a turn ends with the spectators: `Spectate` holds the read lock until
all of them have been written to, and Attach and the cleanup of a pump wait for it, while Send,
which only reads, comes before it in the run loop anyway.

Fairness: a send that has begun goes on, because each write has a deadline, and, while the match
lasts, there is another broadcast; the second is what `TurnsKeepComing` of `Session` shows.
Nothing forces a pump to notice a dead socket, nor a client to come back or to ask for a resync.

### Battle

A turn is `BeginTurn` (switches, then the order of moves), one `Move` or `SkipMove` per side
and `FinishTurn` (end-of-turn damage, cooldowns, victory). The RNG is a choice among the
outcomes it can give, with the certain ones certain. Immunities and the chance to hit are
computed with the chart and the accuracy stages; how much a hit takes is a choice of 1 to
`MaxDamage` HP, which `HitsTakeHP` justifies. What species and instance data never change is
`sheet`, chosen at the start from `Sheets`.

`Formulas` counts the code's float64 factors in tenths, halves or quarters, or as fractions.
Its floors are those of the exact value; where a product of floats is next to an integer the
code may be off by one, which no theorem here depends on as a claim about the floats. Go's
division of integers truncates, which is the floor for the non-negative values there are.

### Bots

`Decide` is what a bot may answer in any state of `Battle`: the operators follow ai.go, with
scores counted in 1/800 so that every factor is exact (multipliers in quarters and halves,
accuracies in percent), and main.go's translations from the AI's numbering to the engine's.
`InOrder` is what the loops over skill slots and battlers collect, in the order of their indices;
`Scan` is the pass over the options, one entry for each iteration. Ties are broken as the loop does. The only randomness is the mistake, a choice among the
outcomes of `Chance`. As the code's view does, the model leaves the cooldowns out.

### Auth, Gateway, Ingress, Matchmaking

`Auth` has one store call per action. `Overlap` says whether two requests may present the
same token at once. Expiry is an action.

`Gateway` counts time in ticks, and any number of requests fit into one. A bucket has the time
until its reset; it is replaced by the first request after that and never in between. `since`
(history) counts, for each n up to the window, what was let through in the last n ticks: `Pass`
adds one to every count, `Tick` shifts them. `Ingress` sends each refresh through it; the ones
the service denies spend a token as well. Registration and login have other paths, hence other
buckets, so they run beside it. A request to the service is then whatever the gateway lets
through.

`Matchmaking` takes one ticket per step, after choosing any pool at the start; `Sorted` leaves
the order of equal ratings open, as `sort.Slice` does.

### OfflineGame

An action is one tap, up to the screen it leaves. A process may die between two taps
(`Kill`) or inside `save()`. `SaveAndShow` has the three ways a save ends: the file is written;
it cannot be opened, and `save()` returns without a word (GameData.gd:79-80), so that the file
stays as it was and the game goes on; or it is opened, which empties it, and not written to the
end, because the process dies or the storage is full (nobody looks at what `store_string` and
`close` report). The last leaves `Torn`, which the next start ignores. `team`, `seen` and
`caught` keep their last value while no process runs, as history for the properties, and
`missed` (history, read by the properties only) says that the last save could not open the file.
Loading makes each creature anew: HP come from the file, max HP from a new roll.

`ProgressIsSaved` and `TeamOnlyGrows` say how much a failing save costs. With the last save
written, memory and file agree; a missed one leaves a file of the same team at an earlier time,
so a restart loses at most what was won since; a torn one loses everything, at the restart and
not before.

## The runs

| run | what it shows | bounds, and why they are enough |
|---|---|---|
| `ProfileTrades` | LockCoversOffer, StageStaysValid, OwnershipMovesOnlyInCommit, ImplementsEscrow | Two trades compete for two creatures of two accounts: a stale offer needs two trades, a switch scam one. Offers of at most one creature; lists are the proofs' business. |
| `ProfileRequests` | StageStaysValid, TeamWellFormed, EvolutionLawful, with lost acknowledgements | Two workers with any pair of requests, one trade, one creature in one of three forms: one evolves at its level, one not yet, the third into a form that is not in the Dex; party lists of up to three with a limit of two. |
| `SessionMatch` | MatchClosed, FirstIntentWins, ImplementsMatch, TurnsKeepComing, SubmitReturns | One connection for each side, and a stranger; a legal and an illegal action; an inbox of one, which is full at once. |
| `WSConnections` | NoZombie, RegisteredCatchUp | Three connections of one player and one of the other, in any overlap that "the client reconnects when its socket has failed" allows; a resync in flight on each; one group of spectators. |
| `BattleTurns` | VictoryIffOut, FaintedStaysFainted, StatusKept, BenchIsReset, CooldownHolds; BotsActLegally, MistakesAreSmall for a bot on either side of every state | Four rosters, each built for a hazard: drain, recoil, toxin and Regenerator at 1 to 4 HP; every condition; boosts and drops with both sides switching; cooldowns of two and three turns. Hits of 1 HP. `RestCap` caps the history counter of turns in the field at the longest cooldown. |
| `AuthTokens` (of `MCIngress`) | EmailsUnique, SingleUse for refreshes that do not overlap, BurstBounded, RefusedOnlyWhenServed | Two emails, two accounts, three tokens, two requests at once: enough for a race on one email and a chain of two rotations. One client, two requests per window, a window of two ticks: buckets of different clients share nothing, and a burst before a reset and one after it fit into one interval. |
| `MatchRegions` | EveryoneOnce, MatchesAreFair, NobodyInReachIsLeft | All pools of four tickets, three ratings, two waits (one past the timeout), two tolerances, two regions; four is what it takes for a ticket to lose its best candidate to an earlier one and find another. |
| `OfflinePlay` | FightersStand, ProgressIsSaved, CountersAgree, TeamOnlyGrows | Two species, a team of up to two, nobody explores beyond level 6, attacks of 0 to 2 HP on 1 HP at first and up to 4 after a victory: knock-outs in one hit and in several. Every save may fail in either way. |
| `SessionLate` | violates LateDropped | one connection each |
| `WSOverlap` | violates CatchesUp | one reconnect |
| `BattleAway` | violates FaintedIsReplaced | one roster |
| `AuthRotation` | violates SingleUse | as AuthTokens, with overlapping refreshes and no gateway |

Symmetry is used where no liveness property is checked and the values are interchangeable.
Deadlock checking is off where the system may stop: HTTP services whose model has used up its
ids, a battle that is over, a pairing that is complete. The session may stop too, but its pumps
can always take another frame.

Every property of a passing run has a mutant: a definition changed the way a bug would change
it, kept in the module just before the one it replaces, that makes the property fail.

### Disagreements the runs show

* `SessionLate`: session.go:109-110 says late submissions are dropped by the run loop. An
  intent in the inbox when the timer resolves its turn is played in the next one
  (session.go:159): nothing ties an intent to a turn.
* `WSOverlap`: ws.go:59 says the reconnect path re-attaches. The old pump's deferred
  `delete(t.players, c.playerID)` (ws.go:105) removes whatever connection the player has by
  then, so a client that is back before the old pump notices gets nothing more.
* `BattleAway`: battle.go:315-317 leaves the replacement of a fainted battler to "the session
  layer forcing a switch"; the session accepts any move, and its default is a move.
* `AuthRotation`: service.go:121-123 says the second use of a refresh token fails. Refresh
  reads the token, looks at Revoked and revokes in separate calls; two at once both pass.

### Disagreements met while reading

These were found while modelling and follow from the same models with other constants, or
from the text alone; no configuration is kept for them.

* MemRepo.UpdateCreature (repo_memory.go:48) stores the whole row, owner included: an Evolve
  that read before a commit gives the creature back. trade.go:116 calls Commit "the only method
  that mutates ownership". With `Backend = "memory"`, OwnershipMovesOnlyInCommit fails.
* When the acknowledgement of a transaction is lost, Commit returns "nothing applied; trade
  stays open" (trade.go:144) although it was applied. With `AckLoss = TRUE`,
  OwnershipMovesOnlyInCommit fails.
* PGRepo checks each transfer after applying the ones before (repo_postgres.go:161), MemRepo all
  of them against the table before the batch (repo_memory.go:114), which is said to mirror it: a
  creature that both parties offer, or that is listed twice, is accepted by one and not by
  the other, and a stale mirrored offer passes on Postgres.
* A trade that commits between SetTeam's checks and its write leaves a foreign creature in
  the party (collection.go:97; the comment at 73-74 promises otherwise).
* Evolve writes what it computed from an earlier read without a version check
  (evolve.go:50): a slow request can take a creature back a form.
* Intent.Seq is "for idempotency" (session.go:36) and never read.
* A resync calls snapshot and Digest from the pump's goroutine (ws.go:125) while the run loop
  may be in ResolveTurn; session.go:48-49 says the engine is never touched concurrently. The
  model has the race and its wrong replies; `RegisteredCatchUp` says it is made good by the next
  turn. The demonstration bot reads the battle from its own goroutine as well (main.go:114).
* ai.go:147 says of a score of 0 "never pick an immune move": a mistake picks the second best
  option, which may be one, and immunity by ability is not looked at. ai.go:55 calls the moves
  "cooldown-filtered"; toView does not filter them. With no skill at all the bot would index an
  empty list (main.go:142).
* save.go:104 says v1 story flags were bool. Decode unmarshals the blob into a map of ints before
  any migration, so a v1 save with such a flag does not load; save.go:24 says "existing players
  never lose progress".
* handlers.go:40 answers with an object; openapi.yaml says an array, with a limit parameter that
  the handler ignores, and `list_creatures` of ApiClient.gd returns an empty list for anything but
  an array: a client's collection is always empty.
* A mono-typed creature is said to pass Neutral as its second element with no penalty, because
  Neutral defends at 1.0 against everything (types.go:77-78; model.go:64 says it repeats the
  first). In the chart Spectre does nothing to Neutral (types.go:63), so such a creature would be
  immune to it: `NeutralAsSecond`.
* Attach does not send the snapshot that ws.go:65 speaks of.
* The matcher's scan breaks at the first candidate out of band (matcher.go:92), "no closer
  candidate further out", but one further out may have a wider band or be past the hard timeout
  (matcher.go:34: "match with anyone in region"; matcher.go:84). With ratings 0, 2, 2 and 3, bands
  of 1 and the ticket at 3 past the timeout, the scan from 0 stops at the first 2, the two at 2 are
  paired, and 0 and 3 are both left. NobodyInReachIsLeft says that this is the only way.

## The proofs

Eight modules hold theorems; each is for every value of the constants that meets the named
ASSUMPTIONs of the module it is about. The assumptions say what kind of value a constant is
(a non-empty roster, a positive capacity, a "none" that is no real value) and nothing about
behaviour; TLC evaluates them in the runs. An invariant is proved by the three facts that Init
implies it, every step keeps it, and it implies the property; one lemma per action or per group
of actions, under a lemma for Next.

`ProfileProofs`:

* `TypeCorrect`: `Spec => []TypeOK`.
* `LocksAreOnOffers`: `Spec => []LockCoversOffer`, on either backend.
* `StagedIsOwned`: on Postgres, `Spec => []StageStaysValid`.
* `OwnershipBySettlement`: on Postgres and without lost acknowledgements,
  `Spec => OwnershipMovesOnlyInCommit`.
* `PartiesStayWellFormed`: `Spec => []TeamWellFormed`, on either backend.
* `FormsFollowTheDex`: `Spec => EvolutionLawful`, on either backend.
* `TradingImplementsEscrow`: on Postgres and without lost acknowledgements,
  `Spec => ImplementsEscrow`.

TypeOK is not inductive: StageFinish needs to know that the trade it writes to is still there.
The inductive invariant is `TypeInv == TypeOK /\ StageHoldsTrade`: the worker in Stage holds
`mu`, and as long as it does nobody commits, cancels or opens, so its trade stays open
and its account a party. Lock coverage adds itself: an offer changes only in StageFinish, which
clears both parties' locks. `StagedIsOwned` adds that an owner changes only in Commit, which
needs `mu` free; UpdateCreature of Postgres leaves the owner alone, which is where the
hypothesis on the backend enters. `OwnershipBySettlement` rests on a chain of lemmas about a batch:
`LastTransfer` (the last transfer of a creature exists and is the one ApplyBatch uses),
`TransferAt` (where a transfer of the batch comes from), `FirstSenderOwns` (a guarded batch
moves a creature away from the owner it had before) and `SettledOwners` (hence what
ApplyBatch leaves is what `Settles` says). Both hypotheses are needed: without either, a model
has a counterexample (see above).

`PartiesStayWellFormed` and `FormsFollowTheDex` are about requests that write what they found out
earlier. Their invariants say what a request has on its stack: `DistinctSoFar`, that the entries a
SetTeam has checked do not repeat, and `LawfulRows`, that the row an Evolve carries is one the Dex
allows, which stays true however old it is, because nothing in the service changes a level.
`TradingImplementsEscrow` goes action by action: Open is Propose, Lock is Agree, StageFinish is
Revise (its offers are owned by `StagedIsOwned`, and all consent is void by `ConsentOfParties`: nobody
but a party ever locks), Commit is Settle by `SettledOwners`, Cancel is Void, Restart is Forget, and
every other step leaves owners and deals alone.

`SessionProofs`, for any pumps, actions and size of the inbox:

* `TypeCorrect`, and `FirstIntentStays` (`Spec => FirstIntentWins`) from it.
* `MatchEndsClean`: `Spec => []MatchClosed`. MatchClosed speaks of where Run is; it needs
  `OverKnown`, that a battle that is over is known to be before another turn begins.
* `SessionImplementsMatch`: `Spec => ImplementsMatch`, action by action, from the two above.

`WSProofs`, for any connections and players: `TypeCorrect`, and `TableIsLive` (`Spec => []NoZombie`),
which is inductive with TypeOK: only the connection that attaches enters the table, and the pump
that goes takes its player's entry along, whoever's it is.

`AuthProofs`:

* `OneAccountPerEmail`: `Spec => []EmailsUnique`; `TypeCorrect` needs `ReqInv`, that the token a
  request has read still exists and the account it will save for does.
* `RotatedOnce`: `~Overlap => (Spec => []SingleUse)`. The invariant `RotationInv` says that a token
  with an heir, or with a request past its revocation, is revoked, that it has one such
  request at most and one heir at most, and never both. The hypothesis is needed: `AuthRotation`.
* `GatewayKeepsAuth`: `IngressSpec => Spec`, so every theorem and property of Auth holds behind
  the gateway; `IngressTypes` for the two together.
* `BurstsAreBounded` (BurstBounded) and `RefusedWereServed` (RefusedOnlyWhenServed), for any rate,
  window and clients.

Neither bound of the limiter is inductive. `LimiterInv` ties the counts in `since` to the bucket. While
it is open (`Open`), since it was opened exactly the rate less its tokens got through; any longer
interval has fewer than the rate on top of that, and any shorter one misses the request that opened
it. Once its reset time has passed (`Past`), every interval as long as the window has fewer than
the rate: the request that opened the bucket lies before it. That is where the "fewer than twice" comes
from, and the refusal: an open bucket without tokens has let the full rate through since it opened,
which is within the window.

`BattleProofs`, for any rosters of non-empty parties, any actions and any size of hits:

* `TypeCorrect`, `OverWhenOut` (VictoryIffOut), `NobodyComesBack` (FaintedStaysFainted),
  `OneStatusAtATime` (StatusKept), `BenchHasNoBoosts` (BenchIsReset), `SkillsRest` (CooldownHolds).

`BattleInv` is TypeOK, that moves are due only while the match goes on, and that every battler is
`Fit`: in its types for its card, and with turns in the field since a skill's use and turns of
cooldown left that add up to the cooldown of each skill, which is why a skill that is ready has
rested. Both only move in the field. It is proved along the
code: what applyStatus, riders, abilities, a hit, end-of-turn damage and a switch each do to one
battler or the pair, then to the parties, then the step. The action properties follow from the
same lemmas, since they say what each of these leaves of a battler: HP at zero, its condition.

* `RankIsRight`, about ChooseAction's loop alone: for any options, in any order, what it ends with
  is a best option and a second best one.
* `BotsPlayLegally` (BotsActLegally) and `MistakesAreSecondBest` (MistakesAreSmall), in every
  reachable state.

`BestTwo` is the invariant of that loop: nothing seen so far scores more than the best, nothing but
the best scores more than the second, and the two differ once two have been seen. The rest is about
the lists: `InOrderLists`, that the list of a set of indices exists, is in order and has each index
once, so the n-th of the bench is who the bot means. `BotsAssumption` is used: with four skill slots and
one skill at least, a battler that stands has an option.

`MatchmakingProofs`, for any finite pool and any policy:

* `TypeCorrect`, `NobodyTwiceNobodyLost` (EveryoneOnce), `OnlyFairMatches` (MatchesAreFair),
  `LeftoversAreApart` (NobodyInReachIsLeft).

`PairInv` ties the parts of the loop together: the group is the region in order of rating, each
ticket that has come up is matched or left, matches join two of one region in band, and a ticket
that was left found the next free one above it not acceptable. The last is what `LeftoversAreApart`
needs: that one is rated between the ticket and everybody else who is free further up, so whoever
of them would have been acceptable is hidden behind it (`Hidden`). It follows that the lower-rated
one of two who are left is not past the timeout and does not have the other in its band; nothing is
said of the higher-rated one's band or timeout.

`OfflineProofs`, for any species, HP, size of team and size of hits:

* `TypeCorrect`, `NobodyFightsFainted` (FightersStand), `NothingOnlyInMemory` (ProgressIsSaved),
  `CountersFollow` (CountersAgree), `NobodyIsLost` (TeamOnlyGrows).

`GameInv` is `DataOK` (team, counters and file are well formed and agree, and ProgressIsSaved)
and `ScreenOK` (each screen has what its buttons use: whom it sends out can fight). TeamOnlyGrows says that
every creature of the team has a place of its own in the next one, with its species and at least its
level (`KeptIn`). The places stay, except that a new lead moves to the head and those before it
move up; a launch takes them from the file, which by ProgressIsSaved has them all unless it is torn
or the last save was missed. That a file left as it was by a missed save still has nothing the
team lacks goes by putting places after places (`KeptTwice`): the file's creatures are in the old
team, and those are in the new one. The module's assumption that "no
file" and "a torn file" are no saved games is what a parser gives.

`FormulaProofs` proves, for every pairing of elements and all naturals as inputs, that the chart
gives only the multipliers the code names (`CombinedMultiplier`), that stats are positive and stay
so at every stage, so the damage formula never divides by zero (`StatsPositive`,
`NoStatVanishes`), that the level is the inverse of the XP curve (`LevelInvertsXP`), that stages
help (`HigherStageHelps`) and never rule a hit out (`HitStaysPossible`), that a hit takes HP exactly
when nobody is immune (`HitsTakeHP`), and that a critical hit is never the weaker one
(`CritNeverHurts`). The last is a chain of monotonicity lemmas, one for each layer: multiplier,
stat, base damage (two fractions under one floor, `QuotientMono`), product and rounding. The
arithmetic is nonlinear, so it rests on a few lemmas about products and quotients that the
provers can instantiate.

Only model-checked: liveness (TurnsKeepComing, SubmitReturns, RegisteredCatchUp), as the proof system
has no support for fairness and ENABLED as used here; and, of course, the four violations. No module
uses a RECURSIVE operator, and induction over data is out of reach through the library's theorems;
where a proof about `InOrder` or `Scan` needs it, it takes the least counterexample instead, which is
a fact about sets of naturals (`Least`).

## Not modelled

* Routing, JSON, password hashing and token signing: I/O, encodings, cryptography. Of the gateway
  only the limiter is modelled; its map of buckets grows with every client and is never cleared,
  which has no bound to check.
* The bits of the RNG and float rounding; the speed order and the size of a hit (choices in
  `Battle`, the size justified by `HitsTakeHP`); the engine's events.
* Listing a collection page by page (repo_memory.go:55) beside trades that move creatures between
  the pages. Keyset paging by id makes a creature that stays come up once.
* The table of spectators: AttachSpectator only adds, and nobody is ever removed. The in-memory
  transport, which the tests use.
* Digest and the replay recorder. The Digest is a hash of the turn, the RNG's state, who is in the
  field, HP and conditions; stages, cooldowns and counters are not in it, although battle.go:334
  calls it one of "the full battle state".
* The save envelope (`save.go`), an encoding with a checksum.
* A save file that exists and cannot be opened for reading: `_load_save` then calls a method on
  null, which is an error of the script and leaves what happens next to the build of the engine.
* Views of the Godot client, generators, start-up code, printing and replay commands.

## Plan

Modelled, checked and proved about: the profile service, the session, the transport, the engine,
the bots, auth behind the limiter, matching and the offline game. In order, what is left:

1. The replay recorder over `Battle`, with the Digest as an operator: which divergences it finds.
2. `SaveEnvelope`: versions, migrations and the checksum of `save.go` as operators.
3. Listings as requests of `Profile`, one page per step, beside trades: a creature that its owner
   keeps throughout is on one page, and on one only.
4. Theorems about the step from snapshot to reply of a resync in `WSTransport`.
