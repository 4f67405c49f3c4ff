---------------------------- MODULE CapturedOutput ----------------------------
(***************************************************************************)
(* What a captured stream promises whoever reads it, on both platforms,    *)
(* with no pty, pipe, thread or channel in sight: the lines come in order, *)
(* each once, and the end comes when the app is gone and all were read.    *)
(* Only a stream with a line that is not UTF-8 may end before that.        *)
(***************************************************************************)
EXTENDS Naturals

CONSTANTS Streams,
          Lossy     \* streams that may end early

VARIABLES running,  \* streams whose app runs
          sent,     \* per stream, the lines its app wrote
          got,      \* the first so many of them, that the reader received
          end       \* "open", "ended" for its reader, or "gone" with its reader

vars == <<running, sent, got, end>>

Init ==
  /\ running = {}
  /\ sent = [s \in Streams |-> 0]
  /\ got = [s \in Streams |-> 0]
  /\ end = [s \in Streams |-> "open"]

\* The app of the streams in S is started: no stream has ended before that.
AppStarts(S) ==
  /\ \A s \in S : end[s] # "ended"
  /\ running' = running \cup S
  /\ UNCHANGED <<sent, got, end>>

AppExits(S) ==
  /\ running' = running \ S
  /\ UNCHANGED <<sent, got, end>>

Write(s) ==
  /\ s \in running
  /\ sent' = [sent EXCEPT ![s] = @ + 1]
  /\ UNCHANGED <<running, got, end>>

\* The streams in S end for their readers, who have everything there will be.
End(S) ==
  /\ \A s \in S : end[s] = "open" /\ (s \notin Lossy => s \notin running /\ got'[s] = sent[s])
  /\ end' = [s \in Streams |-> IF s \in S THEN "ended" ELSE end[s]]
  /\ UNCHANGED <<running, sent>>

\* The next line, which may turn out to be the last.
Receive(s) ==
  /\ end[s] = "open" /\ got[s] < sent[s]
  /\ got' = [got EXCEPT ![s] = @ + 1]
  /\ End({}) \/ End({s})

Finish(S) == UNCHANGED got /\ End(S)

Leave(S) ==
  /\ end' = [s \in Streams |-> IF s \in S THEN "gone" ELSE end[s]]
  /\ UNCHANGED <<running, sent, got>>

Next ==
  \/ \E s \in Streams : Write(s) \/ Receive(s)
  \/ \E S \in SUBSET Streams : AppStarts(S) \/ AppExits(S) \/ Finish(S) \/ Leave(S)

Spec == Init /\ [][Next]_vars
===============================================================================
