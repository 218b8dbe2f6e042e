------------------------------ MODULE AudioTrack ------------------------------
(***************************************************************************)
(* The way of the audio: _record_audio() of session.py, the files it       *)
(* leaves, and compose_stereo() of _audio.py, which turns them into the    *)
(* recording.                                                              *)
(*                                                                         *)
(* A chunk is spooled as two writes, its bytes and an event with their     *)
(* time and number; the rendering reads the bytes in the order of the      *)
(* events.  Either write may be dropped by a full queue.  Rates are in     *)
(* hertz, any that session.py takes.  Time is counted in ticks, of which   *)
(* Ticks make a millisecond, so that the duration of every chunk is a      *)
(* whole number of them; clock and duration are whole milliseconds, and    *)
(* what is not is rounded where the code rounds it.  A byte is the chunk   *)
(* it came in and its place there, a sample the two bytes it is decoded    *)
(* from; the interpolation between a sample and the next is left out, and  *)
(* so are several channels.                                                *)
(***************************************************************************)
EXTENDS Naturals, Sequences, SequencesExt

CONSTANTS Tracks,    \* {"caller", "agent"}
          Rate,      \* track -> its sample_rate_hz
          Ticks,     \* in a millisecond: a byte of any track is a whole number
          Stamps,    \* the timestamp_ms that callers give, in ticks
          Sizes,     \* bound of the model: bytes in a chunk
          MaxChunks, \* bound of the model
          MaxMs      \* bound of the model

ASSUME AudioAssumption ==
  /\ Tracks = {"caller", "agent"}
  /\ Rate \in [Tracks -> Nat \ {0}] /\ Ticks \in Nat \ {0}
  /\ \A k \in Tracks : (1000 * Ticks) % (2 * Rate[k]) = 0
  /\ Stamps \subseteq Nat /\ Sizes \subseteq Nat /\ MaxChunks \in Nat /\ MaxMs \in Nat

VARIABLES
  now,       \* the session's clock, in milliseconds
  ends,      \* per track: _track_timeline_ends, in ticks
  file,      \* per track: the bytes spooled
  events,    \* the audio_chunk events of events.jsonl
  chunks,    \* history: every chunk recorded, and which write of it was dropped
  recording  \* the two channels, once composed

vars == <<now, ends, file, events, chunks, recording>>

Init ==
  /\ now = 0 /\ ends = [k \in Tracks |-> 0]
  /\ file = [k \in Tracks |-> <<>>] /\ events = <<>> /\ chunks = <<>>
  /\ recording = <<>>

Larger(a, b) == IF a < b THEN b ELSE a
Smaller(a, b) == IF a < b THEN a ELSE b

\* round(a / b), halves to even.
Round(a, b) ==
  LET q == a \div b
      twice == 2 * (a % b)
  IN IF twice < b \/ (twice = b /\ q % 2 = 0) THEN q ELSE q + 1

-------------------------------------------------------------------------------
(* _record_audio() *)

\* pcm_duration_ms()
Duration(k, size) == (size * (1000 * Ticks)) \div (2 * Rate[k])

\* Bug: a reply that arrives in a burst is put where it arrived.
OccurredOnArrival(k, received) == received

\* A reply plays in real time, however fast it arrives; the caller is heard live.
OccurredAt(k, received) == IF k = "agent" THEN Larger(received, ends[k]) ELSE received

Bytes(n, size) == [i \in 1..size |-> <<n, i>>]

\* A chunk is received when its caller says, or now.
Received == {now * Ticks} \cup Stamps

\* The bytes go first, then the event.
Record(k, size, received, audioKept, eventKept) ==
  LET at == OccurredAt(k, received)
  IN /\ recording = <<>> /\ Len(chunks) < MaxChunks
     /\ ends' = [ends EXCEPT ![k] = at + Duration(k, size)]
     /\ file' = IF audioKept
                THEN [file EXCEPT ![k] = @ \o Bytes(Len(chunks) + 1, size)] ELSE file
     /\ events' = IF eventKept
                  THEN Append(events, [track |-> k, at |-> at, size |-> size]) ELSE events
     /\ chunks' = Append(chunks, [track |-> k, received |-> received, at |-> at, size |-> size,
                                  audioKept |-> audioKept, eventKept |-> eventKept])
     /\ UNCHANGED <<now, recording>>

Tick ==
  /\ recording = <<>> /\ now < MaxMs
  /\ now' = now + 1
  /\ UNCHANGED <<ends, file, events, chunks, recording>>

-------------------------------------------------------------------------------
(* compose_stereo() *)

Silence == <<>>

Used == {k \in Tracks : \E i \in DOMAIN chunks : chunks[i].track = k}

\* The higher of the two rates.
OutRate == Rate[CHOOSE k \in Used : \A j \in Used : Rate[j] <= Rate[k]]

\* round(ms * output_rate / 1000)
FrameAt(ms) == Round(ms * OutRate, 1000)

\* _decode_mono(): half a sample at the end is dropped.
Decode(data) == [i \in 1..(Len(data) \div 2) |-> <<data[2 * i - 1], data[2 * i]>>]

\* _resample(), each sample for its left neighbour in the source.
Resample(k, samples) ==
  IF Rate[k] = OutRate THEN samples
  ELSE [i \in 1..Larger(1, Round(Len(samples) * OutRate, Rate[k])) |->
          samples[Smaller(Len(samples), ((i - 1) * Rate[k]) \div OutRate + 1)]]

\* Bug: a chunk goes behind what has been rendered so far.
WrittenBehind(output, samples, start) == output \o samples

\* output[start:required] = resampled, after padding with silence.
Written(output, samples, start) ==
  LET required == start + Len(samples)
  IN [i \in 1..Larger(Len(output), required) |->
        IF i > start /\ i <= required THEN samples[i - start]
        ELSE IF i <= Len(output) THEN output[i] ELSE Silence]

\* _audio_events(): times are rounded to milliseconds.  One step of _render_track().
RenderEvent(k, sofar, e) ==
  LET data == SubSeq(file[k], sofar.offset + 1, Smaller(Len(file[k]), sofar.offset + e.size))
      mono == Decode(data)
  IN IF e.track # k THEN sofar
     ELSE [offset |-> sofar.offset + Len(data),
           output |-> IF mono = <<>> THEN sofar.output
                      ELSE Written(sofar.output, Resample(k, mono),
                                   FrameAt(Round(e.at, Ticks)))]

\* Audio without any event is one chunk at the start; audio behind the last event
\* goes to the end.
Render(k) ==
  LET listed == IF (\A j \in DOMAIN events : events[j].track # k) /\ file[k] # <<>>
                THEN <<[track |-> k, at |-> 0, size |-> Len(file[k])]>> ELSE events
      done == FoldLeft(LAMBDA sofar, e : RenderEvent(k, sofar, e),
                       [offset |-> 0, output |-> <<>>], listed)
      rest == Decode(SubSeq(file[k], done.offset + 1, Len(file[k])))
  IN IF done.offset < Len(file[k])
     THEN done.output \o (IF rest = <<>> /\ Rate[k] = OutRate THEN <<>>
                          ELSE IF rest = <<>> THEN <<Silence>> ELSE Resample(k, rest))
     ELSE done.output

\* _fit()
Fit(samples, frames) ==
  [i \in 1..frames |-> IF i <= Len(samples) THEN samples[i] ELSE Silence]

Compose ==
  /\ recording = <<>> /\ Used # {}
  /\ LET rendered == [k \in Tracks |-> IF k \in Used THEN Render(k) ELSE <<>>]
         frames == Larger(FrameAt(now),
                          Larger(Len(rendered["caller"]), Len(rendered["agent"])))
     IN recording' = [k \in Tracks |-> Fit(rendered[k], frames)]
  /\ UNCHANGED <<now, ends, file, events, chunks>>

Next ==
  \/ Tick \/ Compose
  \/ \E k \in Tracks, size \in Sizes, received \in Received, audioKept, eventKept \in BOOLEAN :
       Record(k, size, received, audioKept, eventKept)

Spec == Init /\ [][Next]_vars

-------------------------------------------------------------------------------
(* Properties *)

Composed == recording # <<>>

NothingLost(k) ==
  \A n \in DOMAIN chunks : chunks[n].track = k => chunks[n].audioKept /\ chunks[n].eventKept

\* Where a chunk belongs in the recording: its first frame, and how many it fills.
First(n) == FrameAt(Round(chunks[n].at, Ticks))
Frames(n) ==
  LET samples == chunks[n].size \div 2
  IN IF samples = 0 THEN 0 ELSE Larger(1, Round(samples * OutRate, Rate[chunks[n].track]))

Covers(n, i) == First(n) < i /\ i <= First(n) + Frames(n)

\* The sample of chunk n that sounds at frame i.
Sample(n, i) ==
  LET place == Smaller(chunks[n].size \div 2,
                       ((i - First(n) - 1) * Rate[chunks[n].track]) \div OutRate + 1)
  IN <<<<n, 2 * place - 1>>, <<n, 2 * place>>>>

Heard(k, i) == {n \in DOMAIN chunks : chunks[n].track = k /\ Covers(n, i)}

OnTheTimeline(k) ==
  \A i \in DOMAIN recording[k] :
    recording[k][i] = IF Heard(k, i) = {} THEN Silence
                      ELSE Sample(CHOOSE n \in Heard(k, i) : \A m \in Heard(k, i) : m <= n, i)

\* The recording is aligned with the call: whatever the chunks' sizes, the bursts,
\* the pauses and the rates, of a track of which nothing was dropped each frame holds
\* what was recorded for that instant, the latest if two chunks overlap; and both
\* channels are as long as the call.
TimelineKept ==
  Composed =>
    /\ \A k \in Used : NothingLost(k) => OnTheTimeline(k)
    /\ \A k, j \in Tracks : Len(recording[k]) = Len(recording[j])
    /\ \A k \in Tracks : Len(recording[k]) >= FrameAt(now)

Lost(n) == {i \in (First(n) + 1)..(First(n) + Frames(n)) :
              \E m \in DOMAIN chunks : m > n /\ chunks[m].track = chunks[n].track /\ Covers(m, i)}

\* "Advancing the agent track's clock by PCM duration keeps the pauses": a burst of
\* replies is laid out end to end, no chunk before it was received, and no more of a
\* chunk is written over by what follows than the roundings make: of two times to
\* milliseconds, a millisecond; of both to frames and of its own length, a frame and a
\* half: at 22050 Hz, 23 frames, and as many can be lost.
RepliesLaidEndToEnd ==
  Composed =>
    \A n \in DOMAIN chunks : chunks[n].track = "agent" =>
      /\ 1000 * Cardinality(Lost(n)) <= OutRate + 1500
      /\ First(n) >= FrameAt(Round(chunks[n].received, Ticks))

\* What the manifest's audio_complete is taken to say: no chunk of audio was dropped,
\* so the recording is aligned.
CompleteAudioIsAligned ==
  Composed /\ (\A n \in DOMAIN chunks : chunks[n].audioKept) =>
    \A k \in Used : OnTheTimeline(k)
===============================================================================
