# spi_play in TLA+

A verification project for `spi_play`, the master side of an SPI stream audio
player (C, OpenWrt on MIPS), and for the voice-assistant code that is kept
beside it. Paths are relative to the repository.

## 1. The system

The Makefile links `src/main.c`, `online_play.c`, `user_tts.c`, `spim.c`,
`crc.c` and `ssap_protocol.c` into one program that streams a file to an audio
decoder behind an SPI bus (the *slave*). The other sources belong to the older
voice assistant that `src/main.c_back` composes from the same link: a wake-up
poll thread, a speech-recognition thread, a text-to-speech thread, a player
thread and two MQTT clients. There is no README, document or test in the
repository; what the code says of itself is in its comments.

| component | state | operations | talks to | must be right |
|---|---|---|---|---|
| SSAP link: `online_play.c` 85-285, 324-352, `ssap_protocol.h` | `spi_send_data_mutex`, `handle_response_count`, `spim_connected_spis_flag`, `song_play_status`, a call's locals | `spim_send_command_data`, `handle_spis_response`, `spim_token_thread` | every thread that plays or polls; the SPI driver | a slice is delivered once and in order, losses are not silent, the mutex is given back |
| Response reader: `ssap_protocol.c` 83-116 | a 6-byte buffer, `time_out` | `spis_respones_command` | the driver below, the link and the local player above | it ends, and what it returns was sent, whole and once |
| SPI driver: `spim.c` | `fd`, `spim_mutex` | init, deinit, send/recv byte/data | `/dev/spidev` | blocks of two callers do not overlap |
| CRC: `crc.c` | a table | `get_crc16_nbs` | link, local player | it is CRC-16/XMODEM |
| Player: `user_tts.c`, `main.c` | `decoder_type`, `wave_header`, the file | `main`, `play_local_pcm`, `tts_audio_start_command_send` | link, file system | START, blocks in order, STOP |
| Local player: `local_play.c` | file name, length, buffers | `spim_stream_audio_player_process` | driver, directly | START, blocks in order, to the end |
| Song queue: `queue.c` | ring of 32 elements, `front`, `rear` | create, destroy, empty, full, clear, enqueue, dequeue | a downloader and a player thread | bounded FIFO |
| Play list: `play_link.c` | a linked list | create, add, free | tts and player threads | every node freed once |
| Wake-up: `microphone.c` | mic flag, poll file | `poll_mic_wakeup` thread, `set_mic_enable` | recognition thread | one recording per wake-up |
| Recognition: `user_isr.c`, `speech_recognizer.c` | semaphores, recogniser state, session id, the answer | the isr thread, start/stop/write, the callback of the record thread | MSP SDK (vendored headers), recorder, JSON, tts | a session is ended once, nothing is written to an ended one, the answer is to this question and is acted on |
| Recorder: `linuxrec.c` | `struct recorder`, a semaphore | create, open, start, stop, close; the record thread | ALSA, recognition | whole buffers of fresh samples, no start lost once the thread has its semaphore, every stop noticed, no use after close |
| JSON: `json.c` | trees of values, a lexer's state, growing texts | parse a file or a text, build, print, free, strip, format, escape | recognition | reads what its grammar says, prints what it read, frees what it made |
| MQTT clients: `sub_client.c`, `pub_client.c`, `client_shared.c` | config, message counters | connect, publish, message callbacks | libmosquitto | a message is published once, after CONNACK |
| cJSON, GBK tables: `cJSON.c`, `string_convert.c` | none | parse; convert | recognition | third-party |

The behaviours that are hard: several threads on one half-duplex link without
sequence numbers; frames and responses that are lost, late or damaged; retries
some of which have no limit, made with the mutex held; a retry counter shared by
all calls; a caller that ignores the result; responses found by hunting for a byte;
a queue written and read by two threads without a lock; flags and semaphores
between four threads; a recorder shared by two without one; a parser whose state
must survive a cut at any character; trees walked without a stack.

What would be wrong without anybody noticing in a test: a slice doubled, dropped
or reordered by a retry; a caller told nothing of a loss; the mutex kept for
ever by one slave answer; a recording that hears nothing; a session left open;
an answer to an earlier question; a microphone that stays off; a frame of an old
read among the new; a label lost between two pieces of a document. Each of these
is a property below.

## 2. Plan

Done, in this order:

1. `SsapProtocol`, `SsapLink`: the link, which everything that plays goes
   through, with `SliceDelivery` as the abstract specification of delivery.
2. `Player`: the linked program, composed with `SsapLink`.
3. `Sequeue`, `SequeueAlone`: the song queue, with `BoundedFifo` as the abstract
   specification.
4. `SpeechRecognizer`, `VoiceAssistant`: the recognition, record, wake-up and
   speech threads.
5. `SpisReader`: the byte loop of `spis_respones_command` over a line with noise
   on it, with `ResponseChannel` as the abstract specification of what `SsapLink`
   takes for granted; `LocalPlay`, the older player over it; `Crc`.
6. `Recorder`: the recorder down to the reads of the device.
7. `JsonLexer`, `JsonSaxy`, `JsonTree`, `JsonBuilder`, `JsonParser`,
   `JsonStrings`: the JSON library, with `JsonGrammar` as the abstract
   specification of its parser.
8. `Answer`: what the recognition thread makes of the service's answer.
9. Proofs about each of them (section 5).

Left, in this order:

10. The log-in to the service and `sr_uninit` of an open session.
11. `LocalPlay` beside a thread of the link: what two readers of one line do to
    each other. No program of the repository runs the two together.

Every module that a theorem is about is written for it: constants with named
assumptions, one action per operation or visible step, no RECURSIVE operator.

## 3. The modules and the code

A definition introduced by the words "A bug to tell from
the code" is no part of a specification: it is what a plausible mistake in that
definition would look like, kept to show that a property can tell the two apart.

### SsapProtocol, SsapLink (`online_play.c`, `ssap_protocol.c`, `ssap_protocol.h`)

`SsapProtocol` has the numbers of the two enumerations and the branches of
`handle_spis_response` as predicates on a response: `SliceTaken`,
`ControlTaken`, `TokenTaken`, `TokenRefused`, `RetryCounted`. As in the code,
they look at the command the response carries and not at the one that was sent.

| variable of SsapLink | in the code |
|---|---|
| `owner` | `spi_send_data_mutex` |
| `pc[s]` | where thread `s` is: `idle`, `lock` (blocked on the mutex), `slice` (top of the slice loop), `send`, `wait` (reading the response) |
| `call[s]` | arguments and locals: `data_command`, `buffer_len`, `slice_len`, `data_buffer_point_loca` (modulo 2^16), `data_buffer_end_flag` |
| `retries` | `handle_response_count`, static, shared by all calls |
| `connected`, `songStatus` | `spim_connected_spis_flag`, `song_play_status` |
| `calls` | `send_command_data_count` |
| `inbox`, `outbox` | frames and responses on the bus |
| `prepared`, `taken`, `confirmed`, `abandoned` | history: slices are numbered as they are prepared |

`Call`, `Reject`, `Enter`, `PrepareSlice` and `SendFrame` are the parts of
`spim_send_command_data` between which another thread or the slave may act;
`ReadResponse` and `PollTimeout` are `spis_respones_command` with the whole of
`handle_spis_response` after it. `Slave`, `LoseReply` and `DamageReply` are the
other side, which is not in the repository: the slave echoes the command and may
take or refuse what `Answers` lets it; `Faults` says which faults the bus shows
(a frame lost, a response lost, late, or damaged). A damaged response is one
whose bytes changed behind the sync byte: the master reads its CRC and does not
compare it. Payloads are slice numbers; CRCs and the sync byte are folded into
"lost" and "refused with RESEND". `retries` is kept at `RetryLimit + 1` once it
is there, since it decides nothing else beyond the limit.

`SliceDelivery` is what a caller would want of the link: one slice on offer at a
time, taken at most once, confirmed only if taken, given up only if not.

### Player (`main.c`, `user_tts.c`)

`stage` is where `main` and `play_local_pcm` are, `left` what `fread` has yet to
return, `file` the argument of `main`. `Boot` is `main` with `get_fileSize` and
the configuration file whose handle it does not check; `SendStart`,
`SendHeader`, `Open`, `SendBlock`, `SendStop` and `Close` follow
`play_local_pcm`. Each `Offer` is a call of the link, which then goes through
the steps of `SsapLink` (`MainStep`); the token thread (`OtherStep`) runs beside
it. Reading from a NULL handle is the stage `crash`. `SendStop` may come early
if `ReadFaults`: `fread` returns nothing on an error as at the end. A size that
`get_fileSize` reports for a missing file, (unsigned long)-1, passes
`Plays`.

### Sequeue, SequeueAlone (`queue.c`)

`front`, `rear` and `data` are the ring, `buffers` what was ever allocated, in
order; `Garbage` is what `malloc` returned before anything was written.
`enqueue` is split after `rear` is advanced and after `malloc`, `dequeue` after
`front` is advanced and after the copy, since there the other thread sees it half
done. `dequeue(queue, NULL)`, `clear_sequeue` and `destroy_sequeue` forget
buffers, which `lost` records. The header of the file has a web thread enqueue
and an SPI thread dequeue; no code in the repository calls the queue, so the
threads are a constant. `SequeueAlone` is the queue for one thread, or under a
lock, and `BoundedFifo` what such a caller may expect.

### SpeechRecognizer, VoiceAssistant (`speech_recognizer.c`, `linuxrec.c`, `user_isr.c`, `microphone.c`)

| variable | in the code |
|---|---|
| `sr["orig"]`, `sr["copy"]` | the `struct speech_rec` of the thread, and the one `handle_isr_result` gets by value; with `session_id`, `ep_stat`, `rec_stat`, `state` |
| `recorder`, `startSem` | `rec->state`, `sem_start_record` |
| `buffer`, `result` | whether `g_result` is allocated, and the sessions whose words it holds |
| `isr`, `target`, `seconds` | the recognition thread: its place, the struct it works on, the loop counter `i` |
| `record`, `rslt` | the record thread: its place in the loop or in the callback, and the text it holds |
| `open`, `begun` | the service's sessions |
| `wakeSem`, `putSem`, `urlSem` | `sem_mic_wakeup`, `sem_put_next_tts_text`, `sem_url_hint_tone` |
| `micEnabled`, `poll` | `mic_wake_enable_flag`, the place of the poll thread |
| `url`, `audioPlay`, `speaking` | the answer has a url, `audio_play_flag`, the speech thread has a text |
| `heard`, `over` | history: the session of this listening; an error or the end of speech was met since it began |

`sr_start_listening` is `StartRefused`, `SessionBegin`, `StartRecord`,
`PostStartRecord`, `OnRecBegin`; `sr_stop_listening` is `StopListening`,
`LastWritten`/`LastRefused`, `DrainResult`, `DrainFails`, `DrainDone`. The record
thread waits, loops and reads (`TakeStart`, `RecordLoop`, `PcmRead`,
`PcmReadFails`); `iat_cb` with `sr_write_audio_data`, `end_sr_on_vad` and
`end_sr_on_error` is the rest of `RecordThread`, cut at every call of the
service. A call of the service may fail on an open session and must fail on one
that is not. The end points after the end of speech (time-out, error, too long
a speech) are one value, `BEYOND`. What is said is the session it was said in;
what the JSON holds is one of three kinds: a text, a sofa command, a light
command (`Answer` has how they are told apart; an answer of no length is a text). `audio_status` and the call that sends a sofa command through the link
change nothing these threads read, and are left out. The service (`libmsc`) and
the speech thread (`Spoken`) are external.

### SpisReader, ResponseChannel, LocalPlay (`ssap_protocol.c`, `spim.c`, `local_play.c`)

`SsapLink` reads a response in one step. `SpisReader` is what that step stands
for: `line` are the bytes the slave has for the master, `reader` where
`spis_respones_command` is (hunting for the sync byte, or about to read the
rest), `tries` its `time_out`, `got` the buffer it returns. The line may begin
with the end of a response whose beginning an earlier program read. A byte that
cannot be read is a zero, as in `spi_master_recv_byte`; the CRC of the response,
which nothing looks at, is not on the line. `ResponseChannel` is what a caller may
expect: the responses of the slave, whole, once and in order, or the news that
none came.

`LocalPlay` is the older player over this reader, with the slave at the other
end: `song` is the file, `place` where `spim_stream_audio_player_process` is,
`file_len` what it takes for the rest of the file, `blocks` how many blocks were
read, `content` what `spim_send_buffer` holds, `frames` the frames on their way,
`late` whether the slave may answer after the reader has given up; `heard` is
history, what the slave took, repetitions left out.

### Crc (`crc.c`)

The table and the loop, a byte a step; bits are sets of their numbers, so that a
register, a byte and a frame of any length are the same kind of thing, a polynomial.
The reference beside it is the division on paper: `quotient` is history, and the
register has to be what is left of the frame without the product of quotient and
divisor (`Times`). `TableDivides` says of the 256 entries what they have to be;
TLC evaluates it, on every run of `Parts`.

### Recorder (`linuxrec.c`, `speech_recognizer.c`)

`SpeechRecognizer` takes a read of the device at its outcome. `Recorder` has what
is below: `state`, `handle` and `audiobuf` are fields of `struct recorder`;
`startSem` is `sem_start_record`; `recThread` is where `record_thread_proc` is,
`cancelled` that `pthread_cancel` was called on it; `offset` and `count` are the
locals of `pcm_read`; `device` and `avail` the state of the PCM and the frames it
holds; `client` where the program is in `sr_init_ex`, `sr_start_listening`,
`sr_stop_listening` and `sr_uninit`; `early` is history. `audiobuf` says of each
frame whether it is of the read going on. The device captures, overruns and is
suspended by itself. `AutoStart` is what the ALSA library decides: the program
does not start the device (that line is commented out) and asks for a start
threshold of two buffers, which no read reaches; in the usual build of the
library a read of a prepared device starts it all the same.

### Answer (`user_isr.c`)

`strlen` and `g_buffersize` are the length of `g_result` and the room for it,
`isr` where the answer is, `isrResult`, `isrType`, `url` what
`json_get_result_and_type` and `isr_get_json_data_result_url` leave, `command`
what was sent to the sofa. Words are sequences of syllables and the table of phrases is that of
the source, in its order. A document is a record of what the code asks of it:
whether it can be read, its service, whether it has the text and the url that
are looked for. The three kinds an answer has in `VoiceAssistant` (text, sofa
command, light command) are what `Answer` makes of a document.

### The JSON modules (`json.c`, `json.h`)

| module | what it has |
|---|---|
| `RcString` | `struct rui_cstring`: a text and its room, grown when full |
| `JsonLexer` | `json_lexer()`: the state and the text it keeps, a character a turn |
| `JsonSaxy` | `json_saxy_parse()`, its states and the callbacks each character leads to |
| `JsonReaders` | the two side by side on the same characters; the number and string grammar of RFC 4627 as the reference |
| `JsonTree` | `heap`, the values in memory with their five links; `call`, `root`, `cursor`, `step`, the function that walks a tree and where it is; `output`, `result` |
| `JsonBuilder` | a program that builds trees with `json_insert_child` and `json_insert_pair_into_object`; `lost`, the labels nobody can name any more |
| `JsonParser` | `json_parse_fragment()` under `json_stream_parse()` or `json_parse_document()` (`mode`): `info`, its state and cursor; `token`, `read`, the document so far; `given`, what the caller got, prints and frees |
| `JsonGrammar` | the abstract specification of the parser: an automaton with a stack |
| `JsonStrings` | strip, format, escape, unescape, as functions of a text (`chars`) that grows by `pieces`; `scan` is the lexer over it |

Freeing and printing go over the tree without a stack, by a cursor that is moved
along the links; each turn of the loop is a step, so that other calls find the heap
as a turn leaves it only through `call`: the library has no threads. The parser
takes tokens with their texts where the lexer has characters: where a fragment is
cut changes nothing that the lexer keeps, which `JsonReaders` has a character at a
time. Memory may run out in the lexer, the callback parser, a new value and a
growing output. A growth that fails frees the string it is for (`FREED`); where the
callback parser does not look at the answer of `rcs_catc` (`Unheeded`) it says JSON_OK and
goes on with that pointer, until a character leads it to read the string
(`SaxStrays`) and what it does is anything. Of the text functions stripping works in
place; the others are modelled with memory.

### MCSsapLink, MCPlayer, MCParts, MCDocuments

The instances. `MCParts` and `MCDocuments` put parts that run by themselves into
one specification: one of them is chosen in the initial state and runs, the
others stay as they are.

## 4. The runs

| run | what it asks | finding |
|---|---|---|
| `LinkLossy` | frames and responses lost, three threads, a slave that drains: `TypeOK`; `ConfirmedIsTaken`, what the master holds for delivered is with the slave; `InOrder`, the slave never takes a slice after a later one, although it may take one twice; `NoSilentLoss`, a call returns with its buffer taken or with the connection flagged as down; `LinkReleased`, every call gives the mutex back | holds |
| `LinkTokenErrors` | `TokenGivesUp`: the message "token error, spi cannot connect!!!" promises an end | violated: the test behind it reads a variable that is 0 |
| `LinkStaleAnswer` | `AnswerMatchesCommand`: the answer acted on is one to the command sent | violated when a response is late |
| `PlayerReliable` | `OfferedIsSong`, the requests of `main` are the song; `SongHeard`, the slave hears it once, in order, without what was given up; `ExactlyOnce`, the link implements `SliceDelivery` | holds when responses are neither lost nor late |
| `PlayerEnds` | every fault of the bus, damage that makes any decision of `handle_spis_response` out of a response, and reads that fail: `EverySettled`, `main` never runs ahead of the link; `PlayEnds`, it comes to its end, unless it reads without end responses that are retried without being counted (`RetriedForEver`) | holds |
| `PlayerNoFile` | `OpenErrorHandled`: a missing file is an error, no crash | violated: size -1 passes the test, NULL is read |
| `QueueTorn` | `WebToSpi`: what a web thread enqueues is what an SPI thread dequeues | violated: the slot is visible before its content |
| `VoiceLoop` | `WakeNotQueued`, no wake-up pending while one is answered; `AnswerIsFresh`, the answer is to this question; `SessionsEnd`, no session left open; `OneTextAtATime`; `FirstListeningHears`, samples are ignored only after an error or the end of speech; `ListensAgain` | holds |
| `VoiceSecond` | `EveryListeningHears`: the same of the second listening | violated: it works on a copy of the struct |
| `MicDeaf` | `MicRecovered`: after a recording the microphone can wake the device again | violated: the flag is cleared after the post |
| `Parts` | the queue: `BuffersAccounted`, no buffer forgotten or freed while queued; `IsFifo`, a FIFO of N - 1 | holds for one thread |
| | the recorder: `CallbackFresh`, whole periods of one read; `ThreadHasRecorder`, nothing used after its close; `StartNotLost`, a started recording gets its start, unless that was posted before the thread made its semaphore (`early`); `StopHeeded` | holds |
| | the local player: `LocalInOrder`, `LocalHeard`, no part of the song before its turn, none missing but the last block; `LocalEnds`; `ReaderIsChannel`, the reader implements `ResponseChannel` | holds |
| | `CrcIsRemainder`: the table computes the remainder of the division | holds |
| | an answer: `ResultFits`, with its terminator inside its buffer exactly until a piece comes that one more `BUFFER_SIZE` has no room for; `SofaCommandSent`, the command named is the command sent | holds |
| `Documents` | the readers: `TokensAreJson`, the numbers (`NumbersAreJson`) and strings (`StringsAreClosed`) they take are RFC 4627's; `SaxSeesTokens`, the callback parser calls for the tokens of the lexer, one for one, but with the text of a number only where that is one digit or -0, and with the colon's call for the comma behind a number | holds |
| | trees: `TreeSound`, links agree both ways; `WalksTheTree`, a walk prints the tree it is given (`PrintsTheDocument`) or frees that tree and nothing else (`FreesItsTree`); `CallsReturn` | holds |
| | the parser: `ParserTreeSound`, the tree is what its assertions say (`TreeSanity`) and is gone once it is freed (`NothingLeft`); `FollowsTheGrammar`, it implements `JsonGrammar`; `PrintsWhatItRead` | holds |
| | texts: `WhiteSpaceKeepsTokens`, of strip and format (`StripKeepsTokens`, `FormatKeepsTokens`); `EscapesKeepCharacters`, of escape and unescape (`EscapeRoundTrip`, `UnescapeIsUtf8`) | holds, under the conditions they state |
| | `TextsFit`: the texts that grow, tokens' and outputs', stay in their room (`TextFits`, `OutputFits`), but for the one the callback parser loses behind a sign | holds |

`InOrder` is the strongest order there is on this link: with a response lost the
slave takes a slice twice, and with one late or damaged the master may believe a
slice delivered that is not; `ConfirmedIsTaken` and `ExactlyOnce` are therefore
stated for links that show none of these, and `NoSilentLoss` for those on which
nothing is late or damaged. That `InOrder` survives late and damaged answers too
is proved (`OrderCorrect`, `PlayerInOrder`) rather than run.

Bounds, and why they are enough:

- `MaxSlice` is 2 in the link's runs, so buffers of 1 and 3 bytes are one and two
  slices; a third would repeat the second. It is 512 with the player, as in the
  code, and the files have 100, 101, 512, 513 and 1025 bytes: not played, one
  block, one full block, one byte more than a block, three blocks.
- `RetryLimit` is 1 against 200: the counter is then below, at and past its
  limit, and its use by two calls can be told from its use by one.
- `MaxCalls` (calls begun) is 2 where two or three threads meet, 6 or 10 with
  the player, enough for the largest file; `MaxInFlight` is 2, one late frame
  behind the present one. Larger calls and limits were run once
  (`MaxCalls` 3, `RetryLimit` 2, two threads) with the same result.
- `N` is 4 with `MaxPuts` 7, so the ring is gone round more than once; 3 and 4
  in the torn run, where three elements show it.
- `MaxWakeups` 2 and `MaxSessions` 2 let a listening meet what the one before
  left behind; `RecordTime` is 1 against 10, as the thread only counts it. When
  no session is left, `sr_start_listening` is still refused by the service.
  Three and four sessions were run once for the safety properties.
- `Period` is 2 and `BufferSize` 3: a read may be short, and the device may
  overrun; `MaxPosts` 2 lets a start meet one that was not taken.
- `MaxTries` is 1 against 10000: the noise a line may begin with, two bytes, is
  then used up by the tries of one call, as it is in the code. `MaxFrames` is 2, one late
  frame behind the present one, and the local songs have 512, 513 and 1025 bytes.
- The checksum is run on every first byte and then on 0, 1, 128 and 255, three
  bytes in all; a turn is linear in the register, so longer frames repeat it.
- `BUFFER_SIZE` is 2 against 4096, the pieces of an answer have 0, 1, 2 or 4 characters
  and the answer at most 7: the buffer grows more than once, and a piece of 4 may run
  over it; behind its end the room left is computed modulo `SIZE_MAX` + 1, of which 20
  is the small instance. The texts are one or two phrases, so that a command may lie across both.
- The readers get numbers of up to 5 characters and strings of up to 6, a whole
  `\u` escape, and over a small alphabet exponents of up to 7, so that a text is full
  just where its growth is not looked at; every state of either automaton is met. Trees have 5 values (4 in
  the builder's hands): an object with a label, its value, and siblings of both.
  Documents for the text functions have 5 pieces, other texts 3. Growing strings
  grow by 1, so that they are full as often as can be.
- No symmetry is used: the threads make different calls, and the first free
  value is the one a call takes.

`CHECK_DEADLOCK FALSE`: the program ends (`main` returns, the queue is
destroyed, a process dies, a document is refused), and the bounds on calls, puts,
wake-ups and texts leave a state in which nothing more happens.

Fairness:

- `DrainingSpec` and `FairSpec` of the link: a thread that can take a step takes one (a POSIX
  scheduler; and since nothing but the owner releases the mutex, a weak form is
  enough for the owner), and the slave goes on handling frames. `LinkReleased`
  also needs a slave whose buffer drains (`DrainingSpec`: it takes a frame
  again and again if frames come again and again), since NEXTSEND and ERCMD are
  retried without a limit, in the code on purpose. `LinkTokenErrors` violates
  its property under `FairSpec` and a slave that answers every token.
- `FairPlayerSpec`: the same for the process as a whole, with the slave handling
  frames but free to refuse them. Nothing is assumed of the bus: that responses
  come as NEXTSEND, ERCMD or noise for ever is the second disjunct of `PlayEnds`, not excluded by
  fairness. `MaxTaken` bounds how often the slave takes anything, since a slice whose answer is damaged into
  NEXTSEND is taken again and again; beyond it the slave refuses.
- `FairSpec` of the voice loop: the recognition and record threads run; the
  service that is asked for results comes to an end, complete or failed; a text
  that was put is spoken. Nothing is assumed of the poll thread or of the user.
- `RecorderFair`: the record thread runs, the device captures between two
  suspensions, and a thread that reads again and again gets frames at times.
  Nothing is assumed of the program.
- `LocalFair`: player and slave run, and neither is a frame lost or refused, nor
  its answer lost, for ever. The player retries without a limit, so it needs this.
- The walks of the JSON trees are loops of one thread: weak fairness of the next
  turn.

## 5. The proofs

For every value of the constants that the modules' assumptions admit, and
so for any number of threads, any files, any ring:

| theorem | states | under |
|---|---|---|
| `TypeCorrect` | `TypeOK` of the link | - |
| `OrderCorrect` | `InOrder` | - (all faults) |
| `ConfirmedCorrect` | `ConfirmedIsTaken` | `TimelyReplies`: nothing late or damaged |
| `NoSilentLossCorrect` | `NoSilentLoss` | `TimelyReplies`, and `ControlFits`: a command other than the audio's fits a slice |
| `DeliveryImplemented` | `ExactlyOnce`: `SsapLink` implements `SliceDelivery` | `ReliableReplies`: only frames are lost |
| `OfferedCorrect` | `OfferedIsSong`, for a file of any size | - |
| `SettledCorrect` | `EverySettled`, for a file of any size | - (all faults) |
| `LinkImplemented`, `PlayerInOrder` | the player implements `SsapLink`; `InOrder` for it | - |
| `QueueTypeCorrect`, `QueueIsFifo` | `TypeOK`, and that the ring implements `BoundedFifo` | one thread |
| `BuffersAccountedCorrect` | `BuffersAccounted` | one thread |
| `WakeNotQueuedCorrect` | `WakeNotQueued` | - |
| `OneTextCorrect` | `OneTextAtATime` | - (puts may fail) |
| `VoiceTypeCorrect` | `TypeOK` of the voice loop | - |
| `SessionsEndCorrect`, `AnswerIsFreshCorrect` | `SessionsEnd`, `AnswerIsFresh` | `PromptThreads` |
| `SongHeardCorrect` | `SongHeard`, for a file of any size | `ReliableReplies` |
| `FirstListeningHearsCorrect` | `FirstListeningHears` | `PromptThreads` |
| `CallbackFreshCorrect` | `CallbackFresh`, for any period and buffer | - |
| `ThreadHasRecorderCorrect`, `StartNotLostCorrect` | `ThreadHasRecorder`, `StartNotLost` | - |
| `ResultFitsCorrect`, `SofaCommandSentCorrect` | `ResultFits`, `SofaCommandSent`, for answers of any length, pieces of any length and any documents | - (whichever realloc fails) |
| `LocalHeardCorrect` | `LocalHeard`, for songs of any size | - |
| `LocalInOrderCorrect` | `LocalInOrder`, for songs of any size, answers late or not | - |
| `ReaderIsChannelCorrect` | `ReaderIsChannel`: the reader under the local player implements `ResponseChannel` | - |
| `TokensAreJsonCorrect`, `SaxSeesTokensCorrect`, `TextFitsCorrect` | `TokensAreJson`, `SaxSeesTokens`, `TextFits`, for texts of any length over any characters | - (memory may run out anywhere; the exception is in the property) |
| `BuilderTreeSound`, `ParserKeepsTreeSound` | `TreeSound`, for any number of values | - |
| `BuilderFreesItsTree`, `ParserFreesItsTree` | `FreesItsTree` | - |
| `ParserTreeSoundCorrect` | `ParserTreeSound`, for documents of any nesting | - (every error, memory included) |
| `ParserFollowsTheGrammar` | `FollowsTheGrammar`: the parser implements `JsonGrammar` | - (every error, memory included) |
| `BuilderOutputFits`, `ParserOutputFits` | `OutputFits`, the half of `TextsFit` about outputs; `TextFitsCorrect` is the other | labels, texts and numbers are texts |
| `TextsFitCorrect` | `TextsFit`, for whichever part of `json.c` runs | the same (the exception of `TextFits` is in the property) |
| `BuilderWalksTheTree`, `ParserWalksTheTree` | `WalksTheTree`: what is printed of any tree is its document, and only that tree is freed | the same |
| `ParserPrintsWhatItRead` | `PrintsWhatItRead`, for documents of any nesting and texts of any length | the same |
| `EscapesKeepCharactersCorrect` | `EscapesKeepCharacters`, for texts of any length | - (every character and every `\u` escape, surrogates in any order; what the code gets wrong is said by the property) |
| `WhiteSpaceKeepsTokensCorrect` | `WhiteSpaceKeepsTokens`, for documents of any length | - (the conditions `StripKeepsTokens` and `FormatKeepsTokens` state) |
| `CrcCorrect` | `CrcIsRemainder`, for frames of any length and any bytes | `TableDivides`, of the 256 entries |
| `RestIsUnique`, `BurstShows` | no other word of 16 bits is a rest of the frame; two frames that differ within 16 bits on end have different checksums | - |

The arguments:

- Order (`PlayerProofs`). `InOrder` alone is not inductive: a frame behind may
  carry anything. `OrderInv` adds that a thread between `slice` and `wait` holds
  the mutex (`LockHeld`), that what is sent is always the newest slice
  (`SendsNewest`), and that slices taken, frames under way and the newest number
  stand in one order (`NoneAhead`, `FramesInOrder`, `TakenBeforeFrames`). A
  retry repeats the newest slice, so it can only double, never overtake.
- Delivery (`PlayerProofs`). Without late answers at most one frame or one
  answer is on its way, and only for a thread that waits (`OneAtATime`); its
  answer says whether the slave has it. `ReliableInv` adds which slice is on
  offer and that a slice taken is answered, which makes each step one of
  `SliceDelivery` or a stutter; the mapping is the identity.
- The song (`PlayerProofs`). `Position` ties the stage and `left` to the number
  of requests made; each `SendBlock` moves both, and the last, short block is
  the lemma `LastBlock`. `SettledInv`: a request of `main` is never longer than a
  slice, so the slice prepared for it is its last, and whatever settles that ends
  the call. `SongHeard` adds what `SliceDelivery` promises (`PromiseInv`: the slices
  taken come in the order of their numbers, each once, and are just those that are
  confirmed) and `SlicesInOrder`, that the requests of the song got rising numbers.
- The queue (`SequeueProofs`). `RingInv` says which slots point to buffers at
  each place of an operation, and that the buffer just allocated is in no other
  slot; the items of the mapping are the slots from `front` on, one more while
  dequeue reads and one less while enqueue writes. For `BuffersAccounted` the
  invariant adds that each buffer is held by exactly one live slot, or is freed,
  or lost, and that the three exclude one another.
- Types of the voice loop. `TypeOK` with `HoldsText`: between fetching a text and
  appending it the record thread knows its session.
- Wake-ups. `WakeInv`: the flag is up, with the poll thread not about to clear
  it, only while the recognition thread is idle with nothing pending. The late
  clearing loses wake-ups (`MicDeaf`) but never doubles one.
- Turns. `TurnInv`: there is one turn, and it is with the semaphore, the thread
  that puts, or the speech thread.
- Sessions and answers. `SessionInv`: the one session open is that of the struct
  the recognition thread works on, and what the record thread is about to forget
  is already ended. `AnswerInv`: only the present session is open, and the text
  the record thread holds is of it.
- The first listening. `HearingInv`: while it records, the recognition thread is
  between posting the start and stopping; the record thread is at its forgetting
  steps only with `over`. While it records for the first listening's struct and
  not `over`, the end-point status is that of a new session, unless the record
  thread is at the steps that are about to set `over`, and after the post the
  struct's state is `STARTED`; so the callback has no reason to ignore samples.
- The recorder (`SpeechProofs`). `RecorderInv` has three parts. `LifeInv` ties
  the places of the program and of the thread to what exists: a thread that is
  past its wait has a recorder, and one that was joined is gone. `PeriodInv`: what
  was read and what is left make a period, and the frames of this read are the first
  `offset`. `StartInv`: while the program listens and the thread waits, the start
  is in the semaphore unless it was posted early.
- The local player (`LocalProofs`). `LocalInv`: what the slave heard last, the
  frames under way and what the player sends next stand in the order of the song,
  as a frame sent again only repeats the newest.
  `HeardInv`, for `LocalHeard`, is stated for answers in time: one frame or one
  answer is on its way (`OneOnItsWay`), what the player has at hand is the next
  part (`PartAtHand`), and the slave has all before it (`HeardUpTo`, `NoHole`).
- The reader (`LocalProofs`). `LineInv`: the line is at most two bytes of noise
  and then whole responses; no byte of a response but its first is a sync byte;
  and while the reader hunts, the bytes it skipped and the noise that is left are
  not more than two, so that `MaxTries` of at least 1 uses the noise up and a
  time-out comes only on an empty line. The mapping (`Given`) cuts the line into
  responses from its end.

- The answer (`SpeechProofs`). `LengthInv` is `ResultFits` with the types its
  numbers need, and that the answer is never longer than `MaxAnswer`: behind the end of its
  buffer the room computed is then larger than any piece, so that an answer that ran over
  is never given another buffer. `HandledInv` ties the command sent to the document; that each text
  leads to the command its first phrase names is then a matter of the tables.
- The readers (`JsonProofs`). `LexInv` says of each state what its text is so far
  (`NumberSoFar`, `StringSoFar`): a prefix of a number at the place the state is
  about, a string with its escapes complete up to the pending one. `InStep` ties
  the states of the two readers (`LexStateOf`); with it each character leads both to
  related states, and the calls of the one are the tokens of the other, by `CallOf`.
  `TextsAbreast` adds what the callback parser has kept of a number, its last digit or what
  follows its point, which is the text of the token just when that is `Entire`; a
  growth that failed and was not looked at leaves the states related and the text `FREED`.
- The trees (`JsonTreeProofs`). `TreeSound` is not inductive: from a list that runs
  into itself a value could be removed and leave a bad link. `Linked` adds that a value
  with a parent is in a list of it (`Listed`) and that no list is a ring (`Ordered`: there
  is a rank that grows along it); a freeing walk is at a value `Below` its argument.
  That a root cannot be freed before its children, nor anything beside the
  argument, needs that no value is above itself (`Layered`, a depth that
  grows from parent to child); a program that inserts a value into its own
  descendant would break this, which is what the guards of `JsonBuilder` exclude.
- The parser. `Shaped`: the children of an object are labels, and of the strings only
  a label of an object has a value. `AtState`: what the cursor is at in each state of
  `json_parse_fragment`, from which it follows that no insertion is
  refused. `OnlyRoot`: while there are values one of them is above all others, so that
  freeing it leaves nothing.
- The grammar. The stack is read off the tree by recursion over it (`Open`), and the
  lemmas about it do by the least counterexample (`LeastNumber`) what the
  induction theorems of the library would: that the recursion defines a function on a
  tree of any depth (`OpenIs`), and that a new value leaves it as it was for the
  others (`OpenStays`). Then each turn is a step of `JsonGrammar`, but the two
  that make the container of a token already taken, which are stutters.
- Printing. The document of a tree is the function `Listing`, which
  goes down to the last child and back to the previous value. That it exists on a tree
  of any size is `Recursion`, which takes the largest set of values it can be solved on, and
  `Innermost`, which finds one to add by the rank and depth of `Linked` and `Layered`;
  `ListingIs` is its equation. `PathTo` says along the way from the argument to the
  cursor what stands before each value; `PrintInv` is that the text so far is that (`Said`),
  with what is in the value once the cursor closes it (`Inner`), and that it fits
  (`Roomy`). A turn goes to the first child, the next value or the parent and says just
  what is between them (`SaysChild`, `SaysNext`, `SaysUp`). The hypothesis `WellFormed` of
  `WalksTheTree` is that each label below the root has one value and no other string has
  any: without it there is no document. A tree of the parser meets it once its root is
  closed; the builder may leave a label bare.
- Reading. The way from the root to the cursor is one of last values (`Spine`): nothing
  follows any of them in its list. `ReadAt` says for each state what was read (`AsRead`):
  what stands before the cursor, what is in it, and the comma or colon just taken;
  `Complete`, that every label has its value but the one the cursor is at (`Lacking`).
  An insertion lengthens the way (`SpineGrows`), the end of a container shortens it
  (`LeaveReads`), and when the root is closed its document is what was read (`EndReads`),
  so that printing the root gives that back.
- Escapes (`JsonStringProofs`). The text functions are loops over a text, each a
  function on the numbers of its turns (`For`, `While`); that such a function exists
  for any number of turns is `TurnsExist`, and `SameRun` and `RunStops` carry a fact
  from turn to turn. For `EscapeRoundTrip` the text is read as the pieces its
  characters became (`PieceOf`): the lexer is between two pieces inside the string, and
  unescaping stands at the beginning of one (`RoundTrip`). The text of a string with
  `\u` escapes is, where the surrogates of its pieces are paired, one of `Groups`: a
  character, an escape or two of a pair (`PairsKept`, which `StringInv` carries from piece to
  piece). A high surrogate in the last place leaves half a group (`Half`), and the turn that meets it
  goes past the end (`HalfRuns`). Whatever the surrogates, every turn begins at a piece or
  at what the one before left of it, and writes no more bytes than it reads (`TurnWrites`,
  `NoMoreWritten`). What unescaping writes for a group is
  its UTF-8 (`Utf8`), which decoding takes back to the same code point, a length at a time
  (`DecodeOne` to `DecodeFour`); in step with the reference the three loops go over text,
  bytes and groups (`GroupedRuns`).
- White space (`JsonStringProofs`). A document and what strip or format makes of it are
  read side by side. The document ends outside every token and its tokens are sound
  (`Clean`), from which, going backwards, every character was taken by the lexer and
  no token had begun where none may come (`CleanRun`, `Steps`): a literal or a number
  is followed by a delimiter even with the white space gone. The two scans are then the
  same, or the second has not yet seen the end of a number (`Follows`). White space
  outside the strings keeps this (`Dropped`), as does every other character (`Copied`).
  Strip knows a string by its `state`, and that its texts do not end with a backslash is
  what makes the `"` it looks for the one the lexer finds (`StripsAlong`, `StripSame`);
  stripping twice is followed over prefixes (`StripTwice`). Format stands after
  each turn outside an escape (`Standing`, `Laid`): the line break in front of a `}` ends
  the number that may be before it (`BraceCloses`), and the character copied unseen
  behind an escaped `"` neither ends the string nor begins an escape (`QuoteLeads`),
  which the condition on the texts gives for the completed strings and, carried back
  from the end, for the prefixes the lexer is still in (`Quiet`, `QuietRun`).
- The checksum (`LocalProofs`). `CrcInv` is `CrcIsRemainder` with what a turn needs
  of the register. A turn shifts the division by eight places: `Times` and `Shift`
  respect `^^`, and `TableDivides` gives quotient and rest of the byte that is shifted
  out. A product of the divisor is empty or spans more than 16 bits, so two rests
  cannot differ by one, nor can two frames that differ by a burst have the same rest.

`PromptThreads` is the one assumption about time: a call of the service (a round
trip over the network) lasts longer than the few statements the other thread has
to execute between two of its own. Without it the record thread may be stopped
between fetching a text and appending it, or between ending a session and
forgetting its name, for as long as a whole new listening takes to begin; TLC
then finds `AnswerIsFresh` and `SessionsEnd` violated, while `WakeNotQueued` and
`OneTextAtATime` need no such assumption.

Every invariant of a passing run is stated by a theorem. Only model-checked are the
liveness properties (`LinkReleased`, `PlayEnds`, `ListensAgain`, `StopHeeded`,
`LocalEnds`, `CallsReturn`), which are beyond the prover with their fairness.

The functions of `JsonTree` and `JsonParser` that go over a tree are recursive
functions on its values; that the cursor of a walk is under the value it was given is
stated by the sets that are closed under `parent` (`Beneath`).

## 6. What the models show of the code besides the runs

These follow from steps that are in the models, or were met while reading, and
have no run of their own:

- A refused `sr_start_listening` is ignored (`user_isr.c` 340): the words of the
  listening before are acted on once more, and before the first listening the
  null `g_result` meets the assertion of `json_parse_document` and the process
  ends. `AnswerIsFresh` is stated for listenings that have a session,
  `ListensAgain` counts a dead process as an end.
- `end_sr_on_vad` (`speech_recognizer.c` 88) asks an ended session for its
  result for ever; the recognition thread comes back, the record thread does not
  until the struct names an open session again.
- A text that `tts_text_put` refuses (`user_isr.c` 263) is not spoken, so its
  turn is never given back and the next answer waits for ever. With `PutFaults`
  TRUE `ListensAgain` fails; the run keeps it FALSE, as the function is not in
  the repository.
- The WAV header is computed from 64000 whatever the file is, and `riff_size` is
  8 too large by its own comment (`user_tts.c` 126, `ssap_protocol.h` 200).
- The log line of a full queue has a `%s` without an argument (`queue.c` 79).
- The local player takes 512 off the length before it reads a block and ends when
  nothing is left beyond it: the last block of a song, short or full, is never sent, which
  `LocalHeard` says and does not complain of (`local_play.c` 307). It writes STOP once
  and reads no answer; it takes START for accepted at the OKSEND of any command;
  and a file whose `stat` fails is a song of size 0.
- A read error returns the record thread and leaves the recorder at RECORDING
  (`linuxrec.c` 326): every later start posts to nobody. The device is not
  stopped with a recording, so the next begins with the frames of the pause.
  The explicit start of the device is commented out, and the start threshold is twice
  the buffer (`linuxrec.c` 179-182, 695); on a library that takes the threshold at
  its word (`AutoStart` FALSE) no frame ever comes and a stop is never noticed.
  `close_recorder` is said to wait for the thread (`linuxrec.h` 130), but that
  wait is commented out: `ThreadHasRecorder` rests on the join in `sr_uninit`. A device that does not open ends
  the process in the log line that asks its state (655).
- `g_result` grows by 4096 once for a piece, so a longer one may be written over what
  lies behind it (`overrun`; `ResultFits` says exactly when), and since the room left is a
  `size_t` computed below zero, nothing grows any more; the second answer's text replaces the first without a free, no url is
  freed, and the memory for a url is one byte short (`user_isr.c` 86, 247, 542-544).
- `json.c`: a first line without the document's bracket is refused; an error
  before the first token ends the process in an assertion; a refused document is not
  freed above the cursor; a comma may end an array. Stripping takes the `"`
  after an escaped backslash for an escaped one, formatting takes a `"` or a backslash after an escaped `"`
  for an ordinary character, which the properties state as conditions. In the callback parser a string without a
  callback ends in a length of NULL, and `0e1` is refused, which the lexer takes. Every digit
  of a number begins a new text there (3932), so that the callback gets 3 for 123, and the
  text before is never freed; a comma behind a number is reported as the separator of label
  and value (3513, 3665, 3822). A failed growth at 3851 (the first digit behind the
  sign of an exponent) and 3873 (a 0 behind a minus sign) is not looked at, though
  `rcs_resize` has freed the string (111): the parser says JSON_OK and goes on with it.
- `json_escape` (`json.c` 1188-1192) hands a control character that has no escape of two
  to `vsnprintf` for its `va_list`: the character is taken for an address, and the process ends,
  while `json.h` 276 says of the function that it replaces all characters that must be
  escaped. `EscapeRoundTrip` says that it comes to its end exactly without such a character.
- `json_unescape`: the tests for the second half of a surrogate pair (`json.c` 1299, 1303) are
  always false. Behind a high surrogate six characters are taken, whatever they are, for
  its second half; in the last place it is read past the end of the text, and what is
  written then is unknown. A low one alone comes out as three bytes, which are no UTF-8,
  and `\u0000` writes a byte that ends the result for its caller.
- `json_escape` and `json_format_string` do not look at what
  `rcs_catc` and `rcs_catcs` return; that they run out of memory is not modelled.

## 7. What is not modelled

- The driver `spim.c` beyond its reads and writes: opening the device and its
  ioctls, which end the process on an error.
- The play list: nothing calls it, and the list it makes ends in an uninitialised
  pointer, so that there is no behaviour to state.
- The MQTT clients: what is delivered, and in which order, is decided in
  libmosquitto, which is not in the repository; `client_shared.c` parses options.
- cJSON, the GBK tables and the MSP headers are third-party: one is asked for
  nothing that `Answer` does not have as a field of a document, the next is called by
  nobody, and the last belong to a binary library.
- `example.c` and `test.c` try parts out, and `main.c_back` starts threads two
  of which are not in the repository.
- Of the modelled components: `set_audio_state` and `set_pcm_param`, plain
  assignments; the log-in to the service, the list of input devices,
  `update_format_from_sessionparam` and the session of `sr_uninit`; the sysfs
  set-up of the gpio; and the contents of frames, samples and texts.
