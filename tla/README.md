# tvagent in TLA+

tvagent is an always-listening family assistant for a television: it waits for a
wake word, records an utterance, recognises the speaker, transcribes, streams a
spoken and captioned reply, remembers the turn, and lets the user talk over it.
Its repository also carries the scripts that keep its own quality gates from
being loosened. These modules model the parts of both in which threads, files,
failures and long sequences of legal steps meet, check them on small instances
with TLC, and prove most of the properties with TLAPS. Paths below are relative
to the repository; `core/`, `adapters/` and `console.py` live in `src/tvagent/`.

## Inventory

| component | state | operations | hard part |
|---|---|---|---|
| `core/orchestrator.py` | `_skip_wake`, `_last_turn_ts`; per reply the `barge` event, the text so far, the current player thread | `run_once`, `_stream_reply`, `iter_sentences`, `paced_reveal`, `_await_playback`, `_disarm_barge` | one turn thread beside a pool thread, daemon playback threads and the detector; exceptions anywhere; a hung audio device |
| `core/ports.py`, `core/models.py` | – | the interfaces; `BargeInDetector` is the one with a protocol | who may call what when |
| `adapters/bargein_vad.py` | `_speaking`, `_stop`, `error`, `_thread` | `arm`, `disarm`, `speaking`, `_listen` | flags shared by successive listening threads; a join with a timeout |
| `adapters/tts_piper.py`, `tts_kokoro.py` | voice, cached model; under them one `sounddevice` output stream | `synth`, `play`, `stop`, `set_voice` | `stop` acts on what plays now; `set_voice` races a load |
| `adapters/memory_json.py` | `profile.json`, `turns.jsonl`, `facts.jsonl` per person | `upsert_person`, `get_person`, `list_people`, `save_turn`, `recent_turns` | nothing is atomic: readers and other writers during a rewrite, crashes during a write |
| `adapters/speakerid_ecapa.py` | `threshold`, `margin` | `enroll`, `identify` | reads every profile in each turn, of which there may be none; `threshold` and `margin` are assigned by another thread meanwhile; ids are lower-cased names |
| `console.py`: `ListenLoop` | `_on`, `_thread` | `set`, `_loop` | start and stop while a worker is on its way in or out |
| `console.py`: `ConsoleServer` | clients, the event loop's queue | `_on_message`, `handle_command`, `_run_turn`, `_enroll`, `_broadcast` | worker, event loop and enrolment threads; events and statuses on their way to the page |
| `web/console.html` | `listening`, `inTurn` | `handle`, `renderEvent`, `applyStatus`, reconnect | a badge that must not stick, a button that must show the server's flag |
| `adapters/audio_vad.py`, `wakeword_oww.py`, `audio.py` | capture buffer and silence counter; one input stream per user | `capture`, `wait`, `frames`, `record_seconds` | three users of the one microphone in turn; a clip must be whole |
| `adapters/display_web.py`, `web/index.html` | `_last`, clients | `render`, `broadcast`, `handler` | assigned on one thread, read on another; broadcasts overtake each other |
| LLM and STT adapters, `config.py`, `app.py`, `enroll.py` | a cached model | one call each | may raise or be slow; text comes in arbitrary chunks |
| `scripts/gate_ratchet.py`, `suppression_diff.py`, `guard_protected_paths.py`, `mutation_score.py`, `ci.yml`, the skill's `verify.py` | the gates of master and of a branch | `main` of each | which way round a comparison goes; an absent key; sequences of merges; text that looks like syntax |
| `speaker_eval.py`, `verify_live.py`, `detect.py` | none | one report each | – |

How they meet: `app.main` or `ConsoleServer._run_turn` calls `run_once` for ever
and turns what it raises into a message. `run_once` calls every port; it shares
`_skip_wake` with its next call, the memory's files with the enrolment thread,
the microphone with the detector and the enrolment, and the output stream with
the playback threads it starts. The console's commands arrive on its event loop;
turns and enrolments run on threads of their own and send events back through
the event loop's queue; its `tune` and `voice` commands write, on the event loop,
what `identify` and `synth` read on the turn's threads. The scripts meet in a pull
request: the guard hook before an agent's tool call, then the job of `ci.yml` that
runs the ratchet and the diff, then the merge that makes the branch's gates
those the next branch is compared with.

## Modules

| module | models | extends / instantiates |
|---|---|---|
| `Conversation` | abstract: turns do not overlap, file one record at the end, waive one wake word | – |
| `Detector` | abstract: the `BargeInDetector` port | – |
| `Playback` | the playback threads and their output stream | – |
| `Orchestrator` | `run_once` with everything beside it | `Detector`, `Playback`, `Conversation` |
| `OrchestratorProps` | its properties | `Orchestrator` |
| `OrchestratorProofs` | the theorems about turns | `OrchestratorProps` |
| `ReplyProofs` | the theorems about one reply | `OrchestratorProofs` |
| `VadBargeIn` | the detector's threads, and that they implement `Detector` | `Detector` |
| `SpeakerId` | `identify` beside the console's `tune` | – |
| `Session` | a turn's microphone: wake word, capture, identification and transcription, the reply's detector | `VadBargeIn`, `SpeakerId` |
| `SessionProofs` | the theorems about the detector and about the session | `Session` |
| `Sentences` | `iter_sentences` over streamed chunks, and a reference splitting | – |
| `TtsVoice` | voice, cached model and downloads under `set_voice` and `synth` | – |
| `Speaking` | sentences synthesized one by one | `Sentences`, `TtsVoice` |
| `SpeechProofs` | its theorems | `Speaking` |
| `ListenLoop` | the listen thread | – |
| `Console` | the server around it, enrolment, the page | `ListenLoop` |
| `ConsoleProofs` | the theorems about both | `Console` |
| `WebDisplay`, `DisplayProofs` | the display's broadcasts and pages; its theorems | – |
| `JsonMemory` | the files, the turn thread and the enrolments that use them, faults | – |
| `JsonMemoryProofs` | its theorems | `JsonMemory` |
| `GateRatchet` | the ratchet's comparisons, and what the gates let pass | – |
| `SuppressionDiff` | the diff parser beside git's own account of the lines | – |
| `GuardHook` | when an agent's tool call needs a human | – |
| `PullRequest` | edits, the quality-gate job, merges | the three above |
| `GateProofs` | its theorems | `PullRequest` |
| `MC...` | symmetry and starting points for TLC | |

Correspondence in `Orchestrator`: `pc` is the turn thread's place in the source:
`idle` (before `wake.wait`), `ack`, `stamp` (before `_last_turn_ts = now`),
`capture`, `hear` (inside the pool's `with`), `arm`, `armed` (the detector is, the
`try` not entered: `emit("barge_armed")`), `stream` (waiting for the next
sentence), `reveal` and `word` (in `paced_reveal`, before its poll and between poll
and render), `await` and `join` (the loop of `_await_playback`), `disarm`, `unwind`
(the finally clause on the way of an exception) and `wrap` (after `_stream_reply`'s
try). Words are numbered in the order the model streams them, so a reply is a
sequence of numbers. The clock is the age of two time stamps, saturated one above
`idle_ack_seconds`. `recent[p]` is what `recent_turns` would return. `outcome`,
`sinceAck`, `unstamped`, `unannounced`, `strays` and `overrun` are history
variables that no step reads. An observer that raises is a failure like any other;
where it raises after the last change of a turn (line 159 on) nothing is left to
change.

In `Console` the messages to the page are two queues, one of events and one of the
flags in status messages, for the badge is a matter of the one and the button of
the other. Every command ends in a status; the one an enrolment ends in is put
together (`ReadStatus`) and sent (`SendStatus`) in two steps of its own thread.
`overtaken` says that the last status sent was already out of date, and no step
reads it.

In `JsonMemory` a log is a sequence of turn numbers, with 0 for a line that does
not parse, and a flag for a last line without its newline; a profile is absent,
empty, torn or whole. `enrolling[w]` is the profile writer w has open: several may
have the same one, and `overlapped` (a history variable) remembers which profiles
were opened by a second one and not since by one alone.

In `Session`, `pc` is the turn as the microphone sees it; `heard` holds one verdict
per frame of the capture (a history variable), `clip` the numbers of the frames in
`buf`. `settings` of `SpeakerId` collects the pairs of threshold and margin the
console has set since `identify` began, and `torn` says that one was set between
its two comparisons. `scores` is a function on whatever people have a profile,
none included. In `TtsVoice`, `changed` and `raced` are history variables; in
`Sentences`, `text` and `said`. Characters come in the four classes the regular
expression tells apart. `WebDisplay` numbers the texts in the order they are
rendered in, and a broadcast is a task with the clients it has yet to serve, since
the event loop may change over at every send. A set of gates in `GateRatchet` is a
record with one field per thing a check reads, `Absent` for a missing key. So that
"weakened" has a meaning apart from the ratchet's own comparisons, `Stated` says
which trees the keys let pass, and `Accepts` which trees pass when the tools'
defaults stand in for the keys that are missing. A tree's copy of the ratchet is
absent, genuine, or rewritten and may say anything. In `SuppressionDiff` the lines git
reports (`truth`) stand beside those the parser collects (`lines`).

An operator `Bug...` next to a definition is the same definition with a mistake
it could plausibly contain; no action uses it. Substituted for the definition, it
makes the property it is meant for fail: this is how each property is known to
depend on the code it speaks of.

## Runs

Passing:

| run | instance and bounds | shows |
|---|---|---|
| `Reply.cfg` | one guest, barge-in, 3 thread names, replies of up to 3 words (every split into sentences), 1 hung thread | what is filed, shown, spoken and waived agrees under every interleaving of speech, playback and failure; the turns implement `Conversation` |
| `Turns.cfg` | one person and a guest, acknowledgements, barge-in, a device that may hang, replies of one word | own history, spaced acknowledgements (but after the one failure that is excepted), and that every captured clip's turn ends |
| `Console.cfg` | 2 worker names, 1 enrolment thread at a time, 2 events and 2 statuses in flight | one worker, no stuck badge, stops honoured, a button that shows the flag |
| `Memory.cfg` | 2 people and a guest, 2 writers, 4 turns, histories of 2, 2 faults | histories without gaps, no guest out of a known speaker, logs damaged only by faults and bounded by them, profiles only by faults and overlapping enrolments |
| `Session.cfg` | captures of up to 5 frames with a silence limit of 2, 2 listener names, onset after 2 frames, up to 2 people with 2 scores, 2 thresholds and 2 margins; reads return within the join | one microphone stream at a time, whole clips, identification by a pair of settings the console had set, no stale speech or error, `disarm` returns; implements `Detector` |
| `Speaking.cfg` | texts of up to 5 characters in chunks of 1 or 2, 2 Piper voices | the same sentences in every chunking, as soon as they are complete, in the chosen voice |
| `Display.cfg` | 3 pages, 3 renders, 3 broadcasts under way | no connected page misses a text, none goes back |
| `Gates.cfg` | one gate of each kind (two contracts; `Counts` 0 and 1), three starting points, branches of up to two gate edits or six diff lines, 2 merges | no loosening over several merges unless the ratchet is rewritten, no false alarm, edits asked for, lines reported where they are |

Runs that ask about the same instance are one run: the detector is checked inside
the session that uses it, identification where the console tunes it.

Each of the following checks one sentence the repository says of itself and
finds a behaviour of the code against it (the quotations are in `PROJECT.json`):

| run | property | what happens |
|---|---|---|
| `Interrupted.cfg` | `BargeSilences` | the interruption is polled before the sentence's thread has reached the device; `stop` has nothing to stop and the sentence is spoken |
| `ListeningHasWorker.cfg` | `ListeningHasWorker` | stop, then start while the old worker is alive but has read the flag: listening is on and nobody listens |
| `MicExclusive.cfg` | `MicExclusive` | enrolment is allowed once the flag is off, while the turn in flight still holds the microphone |
| `SelfJudged.cfg` | `MasterJudges` | a branch weakens a gate and rewrites `gate_ratchet.py`; master's copy refuses it, the branch's own then runs in its place, and it is merged |

One more disagreement is stated as an exception of a property instead of a run of
its own: `VoiceFollows` names the sentence spoken in the old voice because
`set_voice` dropped the model while that voice's was being loaded (the comment in
`tts_piper.py` promises that the next utterance reloads). Another is behind an
assumption: the detector's properties hold where a microphone read returns within
the one-second join of `disarm` (`ReadsInTime`). Otherwise the listener that is left
is revived by the next `arm`, which clears the flag it would have stopped at.

Why the bounds are enough. Three words give a sentence with a first, a middle and
a last word as well as two and three sentences; three thread names let a current,
an abandoned and a hung thread coexist. In `Turns.cfg` a history of one exercises
the cut with the second turn. `MaxOutbox` 2 lets an event wait behind another; a
full queue blocks the emitter in the model only, which is why the fairness of the
emitters is strong. Two listeners are the reply's and one left behind. Five frames
with a silence limit of two hold speech, a pause that is too short, speech again
and the pause that ends the clip; three frames would not tell a counter that is
reset from one that is not. Five characters hold a terminator with a closing quote
before the blank, a cut inside it, and two sentences with a remainder. Two voices
are the old and the new one. Three renders with three tasks let a late broadcast
meet a page that two later ones have served or skipped. In `JsonMemory` two faults
let one torn line meet another, four turns exceed the history, and two writers
overlap. Two people can be above a threshold or not and within a margin of each
other or not. Two merges let a gate be removed, or the ratchet, and be missed by
the next branch; measures lie below, at and above both levels.

Exceptions are part of the statements, and each was needed for the property to
hold:

- `ArmedOnlyInReply`: an observer that raises at `emit("barge_armed")`, after `arm()`
  and before the `try`, leaves the detector armed until a later reply;
- `AcksSpaced`: a turn that fails after speaking the acknowledgement and before
  assigning `_last_turn_ts` is followed by another acknowledgement at once;
- `ButtonFollowsFlag`: an enrolment's status that a toggle overtook;
- `DamageNeedsFault`: enrolments under one name that overlap, until the next that
  does not;
- `IdentifiedAsTuned`: a pair of settings that falls between the two comparisons.
  The threshold of one may then meet the margin of another, but whoever is
  recognised is still the closest and above a threshold in force;
- `NeverLoosened`: a merge that brings a rewritten ratchet or comes after one; a
  key put in the place of a tool's default, which the ratchet takes for a new gate
  (what keys refused stays refused even then); and of contracts only their number
  is kept;
- `NoFalseAlarm` is about strict branches and the genuine ratchet;
- `GuardedEdits`: the hook's documented fail-open (a payload or an override that
  does not parse), commands whose text does not spell the file out, commands with
  no way of writing that the hook recognises, other tools, and `.github` named
  without a slash;
- `LinesRight`: files with an added line that begins with `++`;
- `ProofIsConclusive`: a project that is not `strict` yet;
- `VoiceFollows`: a voice changed during the sentence and a download that broke off.

## Fairness

`Orchestrator!FairSpec`: the pool thread's identification and the turn thread's
transcription return or raise (library calls on a finished clip), the turn thread
runs on through a reply, and the clock of the playback cap advances. Nothing is
assumed of the wake word, of capture, of the user or of the audio device, so a hung
player is among the behaviours `TurnsReturn` covers: the cap is what ends the wait.
`Console!ConsoleFairSpec`: the event loop delivers events, and the worker's steps
that do not wait for the microphone happen. `Session!SessionFairSpec`: the device
delivers frames to a listening thread or fails, and a `disarm` that was called goes
on; a capture may last for ever. `JsonMemory`, `Speaking`, `WebDisplay` and
`PullRequest` claim no liveness: what they wait for are an LLM, a browser and
people.

## Proofs

`OrchestratorProofs` proves, for any family, any number of threads and any bound
on words and history:

- `TypeCorrect`, `ArmedUnlessUnannounced`, `HistoriesKeptApart`: the properties
  `TypeOK`, `ArmedOnlyInReply` and `OwnHistory` hold of every reachable state;
- `ImplementsConversation`: `Spec => C!Spec`.

None of the properties is inductive alone. `IInv` adds what they lean on: what is
pending or failed in each stage (once past `hear` both results are there, so
`Lookup` and `Save` file under a person), that the history handed to the model
was `HistoryOf(person_id)` when it was read and no step before `Save` changes
that history (only the turn thread writes it), that every history holds its
owner's turns and is within the limit, that a clip being replied to has words,
and that the waiver is never set outside `idle` (so `Begin` maps to the abstract
`Begin`). Each conjunct has a lemma that says every step keeps it, with one proof
step per action. `RememberSeq` states what `Conversation!Remember` returns.
`StepRefines` splits `Next` once more and shows that `Wake` and `FollowUp` are
`Begin`, failing and ignored turns are `Drop`, `Save` is `Answer`, and everything
else stutters.

`ReplyProofs` builds on `IInv`, at the same generality:

- `WaiverIsEarned` (`WaiverFollowsInterrupt`) and `VoicesAccountedFor`
  (`OneVoice`) are inductive on top of it;
- `FiledWordForWord` (`FiledAsSpoken`) needs `Caption`: in each stage, how many of
  the streamed words the caption holds, and that `barge` is not set where the
  next word or sentence is still to come;
- `CaptionStopsPromptly` (`PromptStop`) needs `Overrun`: no word has followed
  the user's speech at the moment the next one is about to be put up;
- `SilenceAfterBarge` (`NothingNewAfterBarge`, an action property) follows from
  `Caption`, because the one action that starts a thread is taken with `barge`
  unset.

- `InterruptionSilences` (`BargeSilences`) says how far the comment goes that
  `Interrupted.cfg` refutes: it holds of every behaviour in which no thread is
  still starting when the audio is stopped (`StopsInTime`), because from then on
  no thread is started (`NextSilent`) and none is left that could begin;
- `FiledIsShown` (`ShownAsFiled`) needs `OnScreen`: from its first word on the
  screen holds the reply as far as it was revealed;
- `AcksAreSpaced` (`AcksSpaced`) needs that `_last_turn_ts` is never older than
  the last acknowledgement, unless the turn of that one failed before it was
  assigned;
- `TurnsWindDown` is the part of `TurnsReturn` that needs no fairness: `StepsLeft`
  counts the steps a turn can still take once the clip is there. Each step of the
  turn (`TurnStep`: hearing, replying, failing) lowers it and no step of the
  user, the clock, the threads or an enrolment raises it, except that the wait
  for a thread that plays on does not count (`PlaysOn`): what ends that one is the
  thread or the cap. What is left to TLC is that the steps are taken.

`SessionProofs` proves of the detector `SingleListener` (`OneListener`),
`ErrorsAreOfThisReply` (`ErrorMeansDeaf`) and `ImplementsDetector` (`IsDetector`)
for any onset and any number of threads, under `ReadsInTime`: a microphone read
returns within the one-second join of `disarm`. `HeardByItsOwn` (`HeardInThisReply`)
says under the same assumption that speech reported during a reply is always heard
by that reply's listener. `DisarmRunsOut` needs no such assumption: once `_stop` is
set every listener, one an earlier `disarm` gave up included, ends within two of
its steps. The strengthening ties `thread` to the caller's place and says that a
listener still at work has not reported speech. `SessionUsesDetector` says that
every session is a behaviour of the detector, which carries these theorems over to
`Session`, and on it rest:

- `MicrophoneShared` (`OneMicrophone`, under `ReadsInTime`): outside a reply the
  detector is at rest, and at rest no listener lives;
- `IdentifiedFairly` (`IdentifiedAsTuned`), an action property, for any people, with
  profiles or without, and any scores and settings: the invariant says that the
  pair in force, or the one being set, is among those collected, that once the
  threshold was passed one of those collected had let the best score through, and
  that it was the one in force unless `torn`;
- `ClipIsComplete` (`ClipComplete`), for any silence limit and length: the frames
  in `buf` are exactly those with speech, in order, `silent` counts the frames
  since the last of them, and no pause has yet been long enough;
- `SessionTypeCorrect` (`SessionTypeOK`), whether reads return in time or not:
  a listener that still lives has counted fewer than `Onset` frames, and what is
  in `clip` was captured.

`SpeechProofs` proves `VoiceIsFollowed` (`VoiceFollows`) for any voices and for
both adapters (Piper's model per voice, Kokoro's one model): a cached model is
that of the voice, unless it is about to be dropped or was put there in the race
that `raced` names, and what is being loaded is that of the voice unless the voice
was changed meanwhile.

`SentencesAreRight` (`SentencesRight`) is about texts and chunks of any length.
The invariant: the buffer is the text from the last sentence that was yielded
on, and every sentence up to there is out, under its number. What carries it:
whether a sentence ends at a place depends on the two characters before it only,
so a longer text has the same sentence ends (`iter_sentences` need not look
back, nor wait); what is cut off ends in a blank, so nor does it depend on what
was yielded; and `Nth` is determined by how many sentences end before a place.
That as many words are said as the text has comes from a bijection: a word of
the text is the same word of the piece it begins in.

`DisplayProofs` proves `PagesDoCatchUp` (`PagesCatchUp`) and `DisplayNeverBack`
(`NeverBack`) for any number of pages, renders and broadcasts. The invariant: no
page shows more than `last`, and for every broadcast that runs each connected page
is still to be served or shows at least that broadcast's text, because what is
sent is `last` and not the text the broadcast was made for.

`GateProofs` proves, for any gates, levels, rules, files and paths:

- `NothingLoosened` (`NeverLoosened`), an action property over merges: a branch on
  which the job goes on has passed the ratchet against the master it will be
  merged into, unless a rewritten one has let it through, and a tree that meets the
  gates after a comparison that passed meets those before it, gate by gate (floors,
  ceilings, rules, mutation score);
- `OnlyRewritesOverrule`: the comment that `SelfJudged.cfg` refutes (`MasterJudges`)
  holds of every merge that does not bring a rewritten ratchet along, so that run
  shows the only way;
- `RefusedForGood`, the temporal conclusion: as long as no rewritten ratchet has
  reached master, whatever tree the keys of master's gates refuse they refuse ever
  after, so a series of branches that each pass the ratchet brings in nothing that
  one could not;
- `NoAlarmIsFalse` (`NoFalseAlarm`) under `Telling`, which says that what is
  measured tells any two levels apart, and each from no gate at all. No level is 0
  there, because no tree fails a floor of 0, yet the ratchet refuses to have one
  dropped. The instance of `Gates.cfg` is `Telling` (`TellingAssumption`);
- `PullRequestTypeCorrect` (`TypeOK`);
- `ProofConcludes` (`ProofIsConclusive`), which needs that gates compared with
  themselves pass;
- `LinesReadRight` (`LinesRight`): unless the current file was misread, path and
  line number of the parser are those of git.

`JsonMemoryProofs` proves for any people, number of enrolments at a time, history
length, number of turns and number of faults:

- `NoGaps` (`HistoryHasNoGap`): the log of an enrolled person is exactly what was
  filed, or ends in a line that does not parse. In the second case no turn of
  that person is answered, so nothing is ever appended after that line, and
  recalling fails because the last line is always among those read;
- `RecognisedStays` (`KnownOrFailed`): a profile that was found is never removed;
- `LossIsBounded` (`LossPerFault`): the turns lost and twice the logs whose last
  line is unfinished are together at most twice the faults. A fault leaves one
  line unfinished; the append after it loses two turns and closes the line;
- `NoDamageWithoutFault` (`DamageNeedsFault`): without a fault a profile that nobody
  has open is whole, unless two enrolments had it open at once; and `TypeCorrect`
  (`TypeOK`).

`ConsoleProofs` proves `SingleWorker` (`AtMostOneWorker`), whose strengthening is
that whoever lives is `_thread`; `ConsoleUsesLoop`, which carries it over to the
console; `ConsoleTyped` (`ConsoleTypeOK`); and `BadgeIsCleared` (`BadgeClears`): if
the last event on its way, or the badge when none is, says that a turn is on, then
some worker is in one. `ButtonFollows` (`ButtonFollowsFlag`) needs the same of
statuses: the last one on its way, or the button when none is, is the flag unless a
start is half done or that status was overtaken. Three theorems say how far the
docstrings hold that runs refute: `ListeningHolds` (`ListeningHasWorker`), if
listening is never turned on while the old worker is on its way out
(`NotWhileLeaving`), and `EnrolsUndisturbed` (`MicExclusive`), if an enrolment is
begun when the worker has ended and listening stays off meanwhile (`UserWaits`). So
the orders those runs show are the only ones; and under `UserWaits` the button
needs no exception (`ButtonIsTrue`). `StopRunsOut` is the variant of
`StopHonoured`: at most five steps of a stopped worker that is past the microphone.

The assumptions are those named in the modules (`ConfigAssumption`,
`NamesAssumption`, `NoThreadAssumption`, `ConsoleAssumption`, `ListenerAssumption`,
`SpeakerAssumption`, `CaptureAssumption`, `VoiceAssumption`, `DisplayAssumption`,
`MemoryAssumption`, `GateAssumption`, `DiffAssumption`, `PathAssumption`,
`BaselineAssumption`, `TellingAssumption`), which TLC evaluates in its runs, and
`ReadsInTime`, `Telling` or a condition on the behaviour (`StopsInTime`,
`NotWhileLeaving`, `UserWaits`) where a theorem says so. Model-checked only are the
liveness properties `TurnsReturn`, `StopHonoured` and `DisarmReturns`, for fairness
is out of the prover's reach, and `GuardedEdits`, which is about one call at a
time. The variants of the first three are proved (`TurnsWindDown`, `StopRunsOut`,
`DisarmRunsOut`); what the runs add is that the steps the variants count are
enabled and, being fair, taken.

## Not modelled

- The contents of prompts, captions, audio and JSON, and the libraries behind
  speech recognition, embeddings, wake word and language models: each is a call
  that returns one of a few results or raises.
- Of status messages everything but the listening flag (people, sliders, voice),
  and several console pages at once: those fields are the last message received,
  and no document says which of two snapshots taken on different threads should
  win.
- In `Session`, the detector that an observer's failure has left armed
  (`Orchestrator!Announce`): `OneMicrophone` is about turns in which that
  announcement does not raise.
- Facts, which nothing in the program writes; the path check of the memory; the
  echo canceller's `PlaybackReference`, which the configuration does not wire.
- Reading the configuration from the environment: only the state it leads to.
- `speaker_eval.py`, `eval_speaker.py`, `verify_live.py` and `detect.py`:
  sequential scripts that print a report; the skill's templates, which are copies
  of the scripts.
- Of the gates: the text of patterns and configuration files (a gate is its
  parsed value; a pyright report set to a boolean is a key with no value the
  ratchet knows, and left out), rules ignored per file, and a branch that edits
  `ci.yml` itself.

`PROJECT.json` lists every component with its reason.

## What could follow

Several pages in `Console`; an armed detector left over by a failed turn in
`Session`; the files of `JsonMemory` as an implementation of the memory that
`Orchestrator` writes in one step; the hazards listed without a property.
