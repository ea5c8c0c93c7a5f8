----------------------- MODULE PendingRequests_proofs -----------------------
(* For any number of questions and broker processes: Settings shows only    *)
(* questions somebody still waits for, and an answer the user is told was   *)
(* sent is the one the server gets.                                         *)
(*                                                                          *)
(* Neither is inductive.  What decides whether a frame may still be acted   *)
(* upon is what the two pipes hold: a question is put to the sidecar once,  *)
(* before its withdrawal, and answered only after the sidecar has read it.  *)
EXTENDS PendingRequests, SequenceTheorems, TLAPS

Posed(r) == asked[r] \in {"maximal", "done"}

\* Brokers that exist, and the questions that come from them.
Origins ==
  /\ alive \subseteq 1 .. newest
  /\ \A r \in Requests :
       /\ asked[r] # "no" => home[r] \in 1 .. newest
       /\ told[r] # None => Posed(r)

\* A question that is shown has not been answered here.
EntriesOpen ==
  \A r \in entries : told[r] = None /\ Posed(r) /\ (asked[r] = "done" => r \in aborted)

\* A frame for r is for nobody but r's broker; a question under way is
\* followed by its withdrawal if it was taken back while the broker lives.
Withdrawn(r) == [kind |-> "withdrawn", id |-> r]

FollowedUp(g, i) ==
  LET r == up[g][i].id
  IN \/ asked[r] = "maximal" \/ g \notin alive
     \/ \E j \in DOMAIN up[g] : i < j /\ up[g][j] = Withdrawn(r)

\* The question at place i is under way: not shown, not answered, put once.
UnderWay(g, i) ==
  LET r == up[g][i].id
  IN /\ r \notin entries /\ told[r] = None
     /\ asked[r] = "done" => r \in aborted
     /\ FollowedUp(g, i)
     /\ \A j \in DOMAIN up[g] : up[g][j] = up[g][i] => j = i
     /\ \A k \in DOMAIN down[g] : down[g][k].id # r

FrameInv(g, i) ==
  /\ home[up[g][i].id] = g /\ Posed(up[g][i].id)
  /\ up[g][i].kind = "elicit" => UnderWay(g, i)

UpInv == \A g \in Generations : \A i \in DOMAIN up[g] : FrameInv(g, i)

DownInv ==
  \A g \in Generations : \A k \in DOMAIN down[g] :
    LET frame == down[g][k]
    IN /\ home[frame.id] = g /\ Posed(frame.id)
       /\ frame.id \notin entries
       /\ told[frame.id] \in {None, frame.answer}

PInv ==
  /\ TypeOK /\ Origins /\ EntriesOpen
  /\ UpInv /\ DownInv
  /\ ShownIsAwaited /\ OkIsDelivered

----------------------------------------------------------------------------
(* Lemmas about pipes: what a write adds to one and a read takes from one.  *)

LEMMA PipeDomain ==
  ASSUME NEW S, NEW pipe \in [Generations -> Seq(S)], NEW g \in Generations
  PROVE  /\ DOMAIN pipe[g] = 1 .. Len(pipe[g]) /\ Len(pipe[g]) \in Nat
         /\ DOMAIN pipe[g] \subseteq Nat
         /\ \A i \in DOMAIN pipe[g] : pipe[g][i] \in S
<1>1. pipe[g] \in Seq(S)
  OBVIOUS
<1> QED
  BY <1>1, LenProperties, ElementOfSeq

\* t is s with e at the end; t is s without its head.
Grown(s, t, e) ==
  /\ \A i \in DOMAIN s : i \in DOMAIN t /\ t[i] = s[i]
  /\ \E last \in Nat : /\ t[last] = e /\ \A i \in DOMAIN s : i < last
                       /\ DOMAIN t = DOMAIN s \cup {last}

Shrunk(s, t) ==
  /\ 1 \in DOMAIN s /\ Head(s) = s[1]
  /\ \A i \in DOMAIN t : i \in Nat \ {0} /\ i + 1 \in DOMAIN s /\ t[i] = s[i + 1]
  /\ \A i \in DOMAIN s \ {1} : i - 1 \in DOMAIN t /\ t[i - 1] = s[i]

LEMMA PipeGrows ==
  ASSUME NEW S, NEW s \in Seq(S), NEW e \in S
  PROVE  Append(s, e) \in Seq(S) /\ Grown(s, Append(s, e), e)
<1>1. /\ Append(s, e) \in Seq(S)
      /\ DOMAIN s = 1 .. Len(s) /\ Len(s) \in Nat
      /\ Len(Append(s, e)) = Len(s) + 1
      /\ Append(s, e)[Len(s) + 1] = e
      /\ \A i \in 1 .. Len(s) : Append(s, e)[i] = s[i]
  BY AppendProperties, LenProperties
<1>2. DOMAIN Append(s, e) = 1 .. (Len(s) + 1)
  BY <1>1, LenProperties
<1>3. /\ Len(s) + 1 \in Nat
      /\ DOMAIN Append(s, e) = DOMAIN s \cup {Len(s) + 1}
      /\ \A i \in DOMAIN s : i < Len(s) + 1
  BY <1>1, <1>2
<1>4. \A i \in DOMAIN s : i \in DOMAIN Append(s, e) /\ Append(s, e)[i] = s[i]
  BY <1>1, <1>2
<1> QED
  BY <1>1, <1>3, <1>4 DEF Grown

LEMMA PipeShrinks ==
  ASSUME NEW S, NEW s \in Seq(S), s # <<>>
  PROVE  Tail(s) \in Seq(S) /\ Shrunk(s, Tail(s))
<1>1. /\ Tail(s) \in Seq(S)
      /\ Len(Tail(s)) = Len(s) - 1
      /\ \A i \in 1 .. Len(Tail(s)) : Tail(s)[i] = s[i + 1]
  BY HeadTailProperties
<1>2. /\ DOMAIN s = 1 .. Len(s) /\ Len(s) \in Nat \ {0}
      /\ DOMAIN Tail(s) = 1 .. (Len(s) - 1)
  BY <1>1, LenProperties, EmptySeq
<1>3. 1 \in DOMAIN s /\ Head(s) = s[1]
  BY <1>2
<1>4. \A i \in DOMAIN Tail(s) : i \in Nat \ {0} /\ i + 1 \in DOMAIN s /\ Tail(s)[i] = s[i + 1]
  BY <1>1, <1>2
<1>5. ASSUME NEW i \in DOMAIN s \ {1}
      PROVE  i - 1 \in DOMAIN Tail(s) /\ Tail(s)[i - 1] = s[i]
  <2>1. i \in Nat /\ i - 1 \in DOMAIN Tail(s) /\ (i - 1) + 1 = i
    BY <1>2
  <2> QED
    BY <1>4, <2>1
<1> QED
  BY <1>1, <1>3, <1>4, <1>5 DEF Shrunk

----------------------------------------------------------------------------
(* PInv holds at first and no step breaks it.                               *)

LEMMA InitPInv == Init => PInv
<1> SUFFICES ASSUME Init PROVE PInv
  OBVIOUS
<1>1. Generations \subseteq Nat \ {0}
  BY GenerationsAssumption DEF Generations
<1>2. \A S : <<>> \in Seq(S) /\ DOMAIN <<>> = {}
  BY EmptySeq
<1>3. TypeOK
  BY <1>2, GenerationsAssumption DEF Init, TypeOK, Generations
<1>4. UpInv /\ DownInv
  BY <1>2 DEF Init, UpInv, DownInv
<1> QED
  BY <1>3, <1>4 DEF Init, PInv, Origins, EntriesOpen, ShownIsAwaited, OkIsDelivered

\* Facts every step uses, in the form the steps use them.
LEMMA Facts ==
  ASSUME PInv
  PROVE  /\ TypeOK /\ Origins /\ EntriesOpen /\ UpInv /\ DownInv
         /\ ShownIsAwaited /\ OkIsDelivered
         /\ newest \in Nat /\ MaxGeneration \in Nat /\ 1 .. newest \subseteq Generations
         /\ up \in [Generations -> Seq(Frames)] /\ down \in [Generations -> Seq(Results)]
         /\ \A g \in Generations : \A i \in DOMAIN up[g] :
              i \in Nat /\ up[g][i].id \in Requests /\ up[g][i] \in Frames
         /\ \A g \in Generations : \A k \in DOMAIN down[g] :
              k \in Nat /\ down[g][k].id \in Requests /\ down[g][k] \in Results
<1>1. TypeOK /\ newest \in 0 .. MaxGeneration
  BY DEF PInv, TypeOK
<1>2. /\ up \in [Generations -> Seq(Frames)] /\ down \in [Generations -> Seq(Results)]
  BY <1>1 DEF TypeOK
<1>3. \A f \in Frames : f.id \in Requests
  BY DEF Frames
<1>4. \A f \in Results : f.id \in Requests
  BY DEF Results
<1>5. ASSUME NEW g \in Generations
      PROVE  \A i \in DOMAIN up[g] :
               i \in Nat /\ up[g][i].id \in Requests /\ up[g][i] \in Frames
  BY <1>2, <1>3, <1>5, PipeDomain
<1>6. ASSUME NEW g \in Generations
      PROVE  \A k \in DOMAIN down[g] :
               k \in Nat /\ down[g][k].id \in Requests /\ down[g][k] \in Results
  BY <1>2, <1>4, <1>6, PipeDomain
<1> QED
  BY <1>1, <1>2, <1>5, <1>6, GenerationsAssumption DEF PInv, Generations

(* A step that leaves the pipes alone, takes nothing back but by ending the *)
(* broker, and shows nothing new.                                           *)
LEMMA PipesKept ==
  ASSUME PInv, UNCHANGED <<up, down, home, told>>,
         entries' \subseteq entries, aborted \subseteq aborted',
         alive' \cap 1 .. newest \subseteq alive,
         \A r \in Requests :
           /\ Posed(r) => Posed(r)'
           /\ asked'[r] = "done" /\ asked[r] = "maximal" => r \in aborted' /\ home[r] \notin alive'
  PROVE  UpInv' /\ DownInv'
<1>1. ASSUME NEW g \in Generations, NEW i \in DOMAIN up[g]
      PROVE  FrameInv(g, i)'
  <2> DEFINE r == up[g][i].id
  <2>1. /\ r \in Requests /\ home[r] = g /\ Posed(r) /\ Posed(r)'
        /\ up[g][i].kind = "elicit" => UnderWay(g, i)
    BY Facts, <1>1 DEF UpInv, FrameInv
  <2>2. g \in 1 .. newest
    BY Facts, <2>1 DEF Origins, Posed
  <2>3. SUFFICES ASSUME UnderWay(g, i) PROVE UnderWay(g, i)'
    BY <2>1 DEF FrameInv
  <2>4. FollowedUp(g, i)'
    BY <2>1, <2>2, <2>3 DEF UnderWay, FollowedUp, Posed
  <2>5. (asked[r] = "done" => r \in aborted)'
    BY <2>1, <2>3 DEF UnderWay, Posed
  <2> QED
    BY <2>3, <2>4, <2>5 DEF UnderWay
<1>2. UpInv'
  BY <1>1 DEF UpInv
<1>3. DownInv'
  BY Facts DEF DownInv
<1> QED
  BY <1>2, <1>3

LEMMA ClientAnswersPInv ==
  ASSUME PInv, NEW r \in Requests, NEW answer \in UserAnswers, ClientAnswers(r, answer)
  PROVE  PInv'
<1> USE DEF ClientAnswers, Settles, Waiting, life, store, UserAnswers, Answers
<1>1. TypeOK' /\ Origins' /\ EntriesOpen'
  BY Facts DEF TypeOK, Origins, EntriesOpen, Posed
<1>2. UpInv' /\ DownInv'
  BY Facts, PipesKept DEF Posed, TypeOK
<1>3. ShownIsAwaited'
  BY Facts DEF ShownIsAwaited, Posed, EntriesOpen, TypeOK
<1>4. OkIsDelivered'
  BY Facts DEF OkIsDelivered, Posed, Origins, TypeOK
<1> QED
  BY <1>1, <1>2, <1>3, <1>4 DEF PInv

LEMMA BrokerEndsPInv ==
  ASSUME PInv, NEW g \in Generations, BrokerEnds(g)
  PROVE  PInv'
<1> USE DEF BrokerEnds, store, Answers
<1>1. TypeOK' /\ Origins' /\ EntriesOpen'
  BY Facts DEF TypeOK, Origins, EntriesOpen, Posed
<1>2. UpInv' /\ DownInv'
  BY Facts, PipesKept DEF Posed, TypeOK
<1>3. ShownIsAwaited'
  BY Facts DEF ShownIsAwaited, Posed, EntriesOpen, TypeOK
<1>4. OkIsDelivered'
  BY Facts DEF OkIsDelivered, Posed, Origins, TypeOK
<1> QED
  BY <1>1, <1>2, <1>3, <1>4 DEF PInv

LEMMA LookPInv ==
  ASSUME PInv, Look
  PROVE  PInv'
<1> USE DEF Look, Live, life, broker
<1>1. TypeOK' /\ Origins' /\ EntriesOpen'
  BY Facts DEF TypeOK, Origins, EntriesOpen, Posed, Generations
<1>2. UpInv' /\ DownInv'
  BY Facts, PipesKept DEF Posed, TypeOK
<1>3. ShownIsAwaited'
  BY Facts DEF ShownIsAwaited, EntriesOpen, Posed, Origins, TypeOK, Generations
<1>4. OkIsDelivered'
  BY Facts DEF OkIsDelivered
<1> QED
  BY <1>1, <1>2, <1>3, <1>4 DEF PInv

LEMMA ExpiresPInv ==
  ASSUME PInv, NEW r \in Requests, Expires(r)
  PROVE  PInv'
<1> USE DEF Expires, life, broker, store
<1>1. TypeOK' /\ Origins' /\ EntriesOpen'
  BY Facts DEF TypeOK, Origins, EntriesOpen, Posed, Generations
<1>2. UpInv' /\ DownInv'
  BY Facts, PipesKept DEF Posed, TypeOK
<1>3. ShownIsAwaited'
  BY Facts DEF ShownIsAwaited, EntriesOpen, Posed, Origins, TypeOK, Generations
<1>4. OkIsDelivered'
  BY Facts DEF OkIsDelivered
<1> QED
  BY <1>1, <1>2, <1>3, <1>4 DEF PInv

LEMMA LaunchPInv ==
  ASSUME PInv, Launch
  PROVE  PInv'
<1> USE DEF Launch, broker, store
<1>1. TypeOK' /\ Origins' /\ EntriesOpen'
  BY Facts DEF TypeOK, Origins, EntriesOpen, Posed, Generations
<1>2. UpInv' /\ DownInv'
  BY Facts, PipesKept DEF Posed, TypeOK
<1>3. ShownIsAwaited'
  <2>1. ASSUME NEW r \in entries PROVE r \in Requests /\ home[r] # generation
    <3>1. r \in Requests
      BY Facts DEF TypeOK
    <3>2. asked[r] # "no"
      BY Facts DEF EntriesOpen, Posed
    <3>3. home[r] \in 1 .. newest
      BY Facts, <3>1, <3>2 DEF Origins
    <3> QED
      BY <3>1, <3>3
  <2> QED
    BY Facts, <2>1 DEF ShownIsAwaited
<1>4. OkIsDelivered'
  BY Facts DEF OkIsDelivered
<1> QED
  BY <1>1, <1>2, <1>3, <1>4 DEF PInv

LEMMA LosesPInv ==
  ASSUME PInv, Loses
  PROVE  PInv'
<1> USE DEF Loses, DropGeneration, broker
<1>1. TypeOK' /\ Origins' /\ EntriesOpen'
  BY Facts DEF TypeOK, Origins, EntriesOpen, Posed, Generations
<1>2. UpInv' /\ DownInv'
  BY Facts, PipesKept DEF Posed, TypeOK
<1>3. ShownIsAwaited'
  BY Facts DEF ShownIsAwaited, EntriesOpen, Posed, Origins, TypeOK, Generations
<1>4. OkIsDelivered'
  BY Facts DEF OkIsDelivered
<1> QED
  BY <1>1, <1>2, <1>3, <1>4 DEF PInv

LEMMA StopPInv ==
  ASSUME PInv, Stop
  PROVE  PInv'
<1> USE DEF Stop, DropGeneration, broker
<1>1. TypeOK' /\ Origins' /\ EntriesOpen'
  BY Facts DEF TypeOK, Origins, EntriesOpen, Posed, Generations
<1>2. UpInv' /\ DownInv'
  BY Facts, PipesKept DEF Posed, TypeOK
<1>3. ShownIsAwaited'
  BY Facts DEF ShownIsAwaited, EntriesOpen, Posed, Origins, TypeOK, Generations
<1>4. OkIsDelivered'
  BY Facts DEF OkIsDelivered
<1> QED
  BY <1>1, <1>2, <1>3, <1>4 DEF PInv

LEMMA StopEndsPInv ==
  ASSUME PInv, StopEnds
  PROVE  PInv'
<1> USE DEF StopEnds, broker, store
<1>1. TypeOK' /\ Origins' /\ EntriesOpen'
  BY Facts DEF TypeOK, Origins, EntriesOpen, Posed, Generations
<1>2. UpInv' /\ DownInv'
  BY Facts, PipesKept DEF Posed, TypeOK
<1>3. ShownIsAwaited'
  BY Facts DEF ShownIsAwaited, EntriesOpen, Posed, Origins, TypeOK, Generations
<1>4. OkIsDelivered'
  BY Facts DEF OkIsDelivered
<1> QED
  BY <1>1, <1>2, <1>3, <1>4 DEF PInv

(* A broker writes: the question of r, or its withdrawal.                   *)
LEMMA WritesFacts ==
  ASSUME PInv, NEW g \in Generations, NEW r \in Requests, NEW k \in {"elicit", "withdrawn"},
         Writes(g, k, r)
  PROVE  /\ up' \in [Generations -> Seq(Frames)]
         /\ \A h \in Generations \ {g} : up'[h] = up[h]
         /\ Grown(up[g], up'[g], [kind |-> k, id |-> r])
<1> DEFINE e == [kind |-> k, id |-> r]
<1>1. e \in Frames
  BY DEF Frames
<1>2. up \in [Generations -> Seq(Frames)] /\ up[g] \in Seq(Frames)
  BY Facts
<1>3. up' = [up EXCEPT ![g] = Append(@, e)]
  BY DEF Writes
<1> HIDE DEF e
<1>4. Append(up[g], e) \in Seq(Frames) /\ Grown(up[g], Append(up[g], e), e)
  BY <1>1, <1>2, PipeGrows
<1> QED
  BY <1>2, <1>3, <1>4 DEF e

\* The question of r, not asked of Maximal before, goes under way.
LEMMA AsksPInv ==
  ASSUME PInv, NEW g \in alive, NEW r \in Requests, ~Posed(r),
         home' = [home EXCEPT ![r] = g], asked[r] # "no" => home[r] = g,
         asked' = [asked EXCEPT ![r] = "maximal"],
         Writes(g, "elicit", r),
         UNCHANGED <<life, result, aborted, store, expired, down>>
  PROVE  PInv'
<1> USE DEF life, store
<1>g. g \in Generations /\ g \in 1 .. newest
  BY Facts DEF Origins
<1>w. /\ up' \in [Generations -> Seq(Frames)]
      /\ \A h \in Generations \ {g} : up'[h] = up[h]
      /\ Grown(up[g], up'[g], [kind |-> "elicit", id |-> r])
  BY <1>g, WritesFacts
<1>0. PICK last \in Nat :
        /\ last \in DOMAIN up'[g]
        /\ up'[g][last] = [kind |-> "elicit", id |-> r] /\ \A i \in DOMAIN up[g] : i < last
        /\ DOMAIN up'[g] = DOMAIN up[g] \cup {last}
  BY <1>w DEF Grown
<1>t. TypeOK'
  BY Facts, <1>g, <1>w DEF TypeOK, Generations
<1>u. \A h \in Generations : \A i \in DOMAIN up[h] :
        i \in DOMAIN up'[h] /\ up'[h][i] = up[h][i]
  BY <1>w DEF Grown
<1>1. Origins' /\ EntriesOpen'
  BY Facts, <1>g DEF TypeOK, Origins, EntriesOpen, Posed
\* Nothing else is on its way about r, and nothing is known of it here.
<1>2. /\ \A h \in Generations : \A i \in DOMAIN up[h] : up[h][i].id # r
      /\ \A h \in Generations : \A i \in DOMAIN down[h] : down[h][i].id # r
      /\ r \notin entries /\ told[r] = None
  BY Facts DEF UpInv, FrameInv, DownInv, EntriesOpen, Origins
<1>3. \A q \in Requests \ {r} : home'[q] = home[q] /\ asked'[q] = asked[q]
  BY Facts DEF TypeOK
<1>4. home'[r] = g /\ asked'[r] = "maximal"
  BY Facts DEF TypeOK
<1>5. ASSUME NEW h \in Generations, NEW i \in DOMAIN up[h]
      PROVE  FrameInv(h, i)'
  <2> DEFINE q == up[h][i].id
  <2>1. /\ up'[h][i] = up[h][i] /\ q # r /\ q \in Requests
        /\ home[q] = h /\ Posed(q)
        /\ up[h][i].kind = "elicit" => UnderWay(h, i)
    BY Facts, <1>u, <1>2 DEF UpInv, FrameInv
  <2>2. SUFFICES ASSUME UnderWay(h, i) PROVE UnderWay(h, i)'
    BY <1>3, <2>1 DEF FrameInv, Posed
  <2>3. FollowedUp(h, i)'
    BY <1>u, <1>3, <2>1, <2>2 DEF UnderWay, FollowedUp
  <2>4. ASSUME NEW j \in DOMAIN up'[h], up'[h][j] = up'[h][i] PROVE j = i
    <3>1. CASE j \in DOMAIN up[h]
      BY <1>u, <2>1, <2>2, <2>4, <3>1 DEF UnderWay
    <3>2. CASE j \notin DOMAIN up[h]
      <4>1. h = g /\ j = last
        BY <1>w, <1>0, <2>4, <3>2
      <4> QED
        BY <1>0, <2>1, <2>4, <4>1
    <3> QED
      BY <3>1, <3>2
  <2> QED
    BY <1>3, <2>1, <2>2, <2>3, <2>4 DEF UnderWay
<1>6. FrameInv(g, last)'
  <2>1. ASSUME NEW j \in DOMAIN up'[g], up'[g][j].id = r PROVE j = last
    BY <1>g, <1>0, <1>u, <1>2, <2>1
  <2>2. up'[g][last].id = r
    BY <1>0
  <2>3. FollowedUp(g, last)'
    BY <1>4, <2>2 DEF FollowedUp
  <2>4. UnderWay(g, last)'
    BY <1>g, <1>2, <1>4, <2>1, <2>2, <2>3 DEF UnderWay
  <2> QED
    BY <1>4, <2>2, <2>4 DEF FrameInv, Posed
<1>7. UpInv'
  <2> SUFFICES ASSUME NEW h \in Generations, NEW i \in DOMAIN up'[h]
               PROVE  FrameInv(h, i)'
    BY DEF UpInv
  <2>1. CASE i \in DOMAIN up[h]
    BY <1>5, <2>1
  <2>2. CASE i \notin DOMAIN up[h]
    BY <1>w, <1>0, <1>6, <2>2
  <2> QED
    BY <2>1, <2>2
<1>8. DownInv'
  BY Facts, <1>2, <1>3 DEF DownInv, Posed
<1>9. ShownIsAwaited'
  BY Facts, <1>t, <1>u, <1>2, <1>3 DEF ShownIsAwaited, Sent, TypeOK
<1>10. OkIsDelivered'
  BY Facts, <1>2, <1>3 DEF OkIsDelivered
<1> QED
  BY <1>t, <1>1, <1>7, <1>8, <1>9, <1>10 DEF PInv

LEMMA ElicitPInv ==
  ASSUME PInv, NEW r \in Requests, NEW whom \in {"nobody", "client", "maximal"},
         Elicit(r, whom)
  PROVE  PInv'
<1>1. PICK g \in alive :
        /\ home' = [home EXCEPT ![r] = g]
        /\ \/ whom = "nobody" /\ Settles(r, "decline") /\ UNCHANGED up
           \/ /\ whom = "client"
              /\ asked' = [asked EXCEPT ![r] = "client"]
              /\ UNCHANGED <<result, up>>
           \/ /\ whom = "maximal"
              /\ asked' = [asked EXCEPT ![r] = "maximal"]
              /\ Writes(g, "elicit", r)
              /\ UNCHANGED result
  BY DEF Elicit
<1>2. asked[r] = "no" /\ UNCHANGED <<life, aborted, store, expired, down>>
  BY DEF Elicit
<1>3. CASE Writes(g, "elicit", r) /\ whom = "maximal"
  BY <1>1, <1>2, <1>3, AsksPInv DEF Posed
<1>4. CASE whom \in {"nobody", "client"}
  <2> USE DEF life, store, Settles, Answers
  <2>0. up' = up /\ asked' \in {[asked EXCEPT ![r] = "done"], [asked EXCEPT ![r] = "client"]}
        /\ result' \in {result, [result EXCEPT ![r] = "decline"]}
    BY <1>1, <1>4
  <2>1. /\ up' = up /\ g \in Generations /\ g \in 1 .. newest
        /\ r \notin entries /\ told[r] = None
        /\ \A h \in Generations : \A i \in DOMAIN up[h] : up[h][i].id # r
        /\ \A h \in Generations : \A i \in DOMAIN down[h] : down[h][i].id # r
    <3>1. g \in Generations /\ g \in 1 .. newest
      BY Facts, <1>1 DEF Origins
    <3>2. r \notin entries /\ told[r] = None
      BY Facts, <1>2 DEF EntriesOpen, Origins, Posed
    <3>3. ~Posed(r)
      BY <1>2 DEF Posed
    <3>4. /\ \A h \in Generations : \A i \in DOMAIN up[h] : up[h][i].id # r
          /\ \A h \in Generations : \A i \in DOMAIN down[h] : down[h][i].id # r
      BY Facts, <3>3 DEF UpInv, FrameInv, DownInv
    <3> QED
      BY <2>0, <3>1, <3>2, <3>4
  <2>2. /\ \A q \in Requests \ {r} : home'[q] = home[q] /\ asked'[q] = asked[q] /\ result'[q] = result[q]
        /\ asked'[r] # "no" /\ home'[r] = g
    BY Facts, <1>1, <2>0 DEF TypeOK
  <2>3. TypeOK'
    <3>1. asked' \in [Requests -> {"no", "client", "maximal", "done"}]
      BY Facts, <2>0 DEF TypeOK
    <3>2. result' \in [Requests -> Answers \cup {None}]
      BY Facts, <2>0 DEF TypeOK
    <3>3. home' \in [Requests -> 0 .. MaxGeneration]
      BY Facts, <1>1, <2>1 DEF TypeOK, Generations
    <3> QED
      BY Facts, <1>2, <2>1, <3>1, <3>2, <3>3 DEF TypeOK
  <2>4. Origins' /\ EntriesOpen'
    BY Facts, <1>2, <2>1, <2>2 DEF TypeOK, Origins, EntriesOpen, Posed
  <2>5. UpInv'
    BY Facts, <1>2, <2>1, <2>2 DEF UpInv, FrameInv, UnderWay, FollowedUp, Posed
  <2>6. DownInv'
    <3> SUFFICES ASSUME NEW h \in Generations, NEW k \in DOMAIN down[h]
                 PROVE  /\ home'[down[h][k].id] = h /\ Posed(down[h][k].id)'
                        /\ down[h][k].id \notin entries
                        /\ told[down[h][k].id] \in {None, down[h][k].answer}
      BY <1>2 DEF DownInv
    <3> DEFINE q == down[h][k].id
    <3>1. /\ q \in Requests /\ home[q] = h /\ Posed(q)
          /\ q \notin entries /\ told[q] \in {None, down[h][k].answer}
      BY Facts DEF DownInv
    <3> HIDE DEF q
    <3>2. q # r
      BY <1>2, <3>1 DEF Posed
    <3>3. home'[q] = home[q] /\ asked'[q] = asked[q]
      BY <2>2, <3>1, <3>2
    <3>4. /\ home'[q] = h /\ asked'[q] \in {"maximal", "done"}
          /\ q \notin entries /\ told[q] \in {None, down[h][k].answer}
      BY <3>1, <3>3 DEF Posed
    <3>5. down' = down
      BY <1>2
    <3> QED
      BY <3>4, <3>5 DEF q, Posed
  <2>7. ShownIsAwaited'
    BY Facts, <1>2, <2>1, <2>2 DEF ShownIsAwaited, TypeOK
  <2>8. OkIsDelivered'
    BY Facts, <1>2, <2>1, <2>2 DEF OkIsDelivered
  <2> QED
    BY <2>3, <2>4, <2>5, <2>6, <2>7, <2>8 DEF PInv
<1> QED
  BY <1>1, <1>3, <1>4

LEMMA ClientFailsPInv ==
  ASSUME PInv, NEW r \in Requests, NEW shown \in BOOLEAN, ClientFails(r, shown)
  PROVE  PInv'
<1>0. home[r] \in alive /\ asked[r] = "client" /\ UNCHANGED <<life, home, aborted, store, expired, down>>
  BY DEF ClientFails, Waiting
<1>1. CASE shown
  <2>1. home' = [home EXCEPT ![r] = home[r]]
    BY Facts, <1>0 DEF TypeOK
  <2> QED
    BY <1>0, <1>1, <2>1, AsksPInv DEF ClientFails, Posed
<1>2. CASE ~shown
  <2> USE DEF life, store, Settles, Answers
  <2>0. UNCHANGED up /\ Settles(r, "decline")
    BY <1>2 DEF ClientFails
  <2>1. TypeOK' /\ Origins' /\ EntriesOpen'
    BY Facts, <1>0, <2>0 DEF TypeOK, Origins, EntriesOpen, Posed
  <2>2. UpInv' /\ DownInv'
    BY Facts, <1>0, <2>0, PipesKept DEF Posed, TypeOK
  <2>3. ShownIsAwaited'
    BY Facts, <1>0, <2>0 DEF ShownIsAwaited, Posed, EntriesOpen, TypeOK
  <2>4. OkIsDelivered'
    BY Facts, <1>0, <2>0 DEF OkIsDelivered, Posed, Origins, TypeOK
  <2> QED
    BY <2>1, <2>2, <2>3, <2>4 DEF PInv
<1> QED
  BY <1>1, <1>2

LEMMA AbortPInv ==
  ASSUME PInv, NEW r \in Requests, Abort(r)
  PROVE  PInv'
<1> USE DEF life, store
<1>1. /\ Waiting(r) /\ Settles(r, "cancel") /\ aborted' = aborted \cup {r}
      /\ UNCHANGED <<life, home, store, expired, down>>
  BY DEF Abort
<1>2. /\ asked' = [asked EXCEPT ![r] = "done"] /\ result' = [result EXCEPT ![r] = "cancel"]
      /\ asked[r] \in {"client", "maximal"} /\ home[r] \in alive /\ home[r] \in Generations
  BY Facts, <1>1 DEF Settles, Waiting, Origins
<1>3. /\ \A q \in Requests \ {r} : asked'[q] = asked[q] /\ result'[q] = result[q]
      /\ asked'[r] = "done"
  BY Facts, <1>2 DEF TypeOK
<1>4. Origins' /\ EntriesOpen'
  BY Facts, <1>1, <1>2, <1>3 DEF Origins, EntriesOpen, Posed, TypeOK
<1>5. DownInv'
  BY Facts, <1>1, <1>2, <1>3 DEF DownInv, Posed
<1>6. OkIsDelivered'
  BY Facts, <1>1, <1>2, <1>3 DEF OkIsDelivered
<1>7. /\ asked' \in [Requests -> {"no", "client", "maximal", "done"}]
      /\ result' \in [Requests -> Answers \cup {None}]
  BY Facts, <1>2 DEF TypeOK, Answers
<1>8. CASE asked[r] = "client"
  <2>1. up' = up
    BY <1>8 DEF Abort
  <2>2. TypeOK'
    BY Facts, <1>1, <1>7, <2>1 DEF TypeOK
  <2>3. \A h \in Generations : \A i \in DOMAIN up[h] : up[h][i].id # r
    BY Facts, <1>8 DEF UpInv, FrameInv, Posed
  <2>4. UpInv'
    <3> SUFFICES ASSUME NEW h \in Generations, NEW i \in DOMAIN up[h]
                 PROVE  FrameInv(h, i)'
      BY <2>1 DEF UpInv
    <3> QED
      BY Facts, <1>1, <1>3, <2>1, <2>3 DEF UpInv, FrameInv, UnderWay, FollowedUp, Posed
  <2>5. ShownIsAwaited'
    BY Facts, <1>1, <1>3, <1>8, <2>1 DEF ShownIsAwaited, EntriesOpen, Posed, TypeOK
  <2> QED
    BY <1>4, <1>5, <1>6, <2>2, <2>4, <2>5 DEF PInv
<1>9. CASE asked[r] = "maximal"
  <2> DEFINE g == home[r]
  <2>1. Writes(g, "withdrawn", r)
    BY <1>9 DEF Abort
  <2>2. /\ up' \in [Generations -> Seq(Frames)]
        /\ \A h \in Generations \ {g} : up'[h] = up[h]
        /\ Grown(up[g], up'[g], Withdrawn(r))
    BY <1>2, <2>1, WritesFacts DEF Withdrawn
  <2>3. PICK last \in Nat :
          /\ last \in DOMAIN up'[g]
          /\ up'[g][last] = Withdrawn(r) /\ \A i \in DOMAIN up[g] : i < last
          /\ DOMAIN up'[g] = DOMAIN up[g] \cup {last}
    BY <2>2 DEF Grown
  <2>4. \A h \in Generations : \A i \in DOMAIN up[h] :
          i \in DOMAIN up'[h] /\ up'[h][i] = up[h][i]
    BY <2>2 DEF Grown
  <2>5. TypeOK'
    BY Facts, <1>1, <1>7, <2>2 DEF TypeOK
  <2>6. ASSUME NEW h \in Generations, NEW i \in DOMAIN up[h]
        PROVE  FrameInv(h, i)'
    <3> DEFINE q == up[h][i].id
    <3>1. /\ up'[h][i] = up[h][i] /\ q \in Requests
          /\ home[q] = h /\ Posed(q) /\ Posed(q)'
          /\ up[h][i].kind = "elicit" => UnderWay(h, i)
      BY Facts, <1>3, <2>4 DEF UpInv, FrameInv, Posed
    <3>2. SUFFICES ASSUME UnderWay(h, i), up[h][i].kind = "elicit" PROVE UnderWay(h, i)'
      BY <1>1, <3>1 DEF FrameInv, Posed
    <3>3. FollowedUp(h, i)'
      <4>1. CASE q = r
        <5>1. h = g /\ i < last /\ up'[h][last] = Withdrawn(r)
          BY <1>2, <2>3, <3>1, <4>1
        <5> QED
          BY <2>3, <3>1, <4>1, <5>1 DEF FollowedUp
      <4>2. CASE q # r
        BY <1>1, <1>3, <2>4, <3>1, <3>2, <4>2 DEF UnderWay, FollowedUp
      <4> QED
        BY <4>1, <4>2
    <3>4. ASSUME NEW j \in DOMAIN up'[h], up'[h][j] = up'[h][i] PROVE j = i
      <4>1. CASE j \in DOMAIN up[h]
        BY <2>4, <3>1, <3>2, <3>4, <4>1 DEF UnderWay
      <4>2. CASE j \notin DOMAIN up[h]
        <5>1. h = g /\ j = last
          BY <2>2, <2>3, <3>4, <4>2
        <5> QED
          BY <2>3, <3>1, <3>2, <3>4, <5>1 DEF Withdrawn
      <4> QED
        BY <4>1, <4>2
    <3>5. (asked[q] = "done" => q \in aborted)'
      BY <1>1, <1>3, <3>1, <3>2, <2>4 DEF UnderWay
    <3> QED
      BY <1>1, <3>1, <3>2, <3>3, <3>4, <3>5 DEF UnderWay
  <2>7. FrameInv(g, last)'
    BY <1>1, <1>3, <2>3 DEF FrameInv, Posed, Withdrawn
  <2>8. UpInv'
    <3> SUFFICES ASSUME NEW h \in Generations, NEW i \in DOMAIN up'[h]
                 PROVE  FrameInv(h, i)'
      BY DEF UpInv
    <3>1. CASE i \in DOMAIN up[h]
      BY <2>6, <3>1
    <3>2. CASE i \notin DOMAIN up[h]
      BY <1>1, <2>2, <2>3, <2>7, <3>2
    <3> QED
      BY <3>1, <3>2
  <2>9. ShownIsAwaited'
    <3> SUFFICES ASSUME NEW q \in entries, home[q] \notin stopped
                 PROVE  /\ home[q] = generation
                        /\ \/ asked'[q] = "maximal" \/ home[q] \notin alive
                           \/ Sent(up'[generation], [kind |-> "withdrawn", id |-> q])
      BY <1>1 DEF ShownIsAwaited
    <3>1. /\ home[q] = generation /\ q \in Requests
          /\ \/ asked[q] = "maximal" \/ home[q] \notin alive
             \/ Sent(up[generation], [kind |-> "withdrawn", id |-> q])
      BY Facts DEF ShownIsAwaited, TypeOK
    <3>2. CASE q = r
      BY <2>3, <3>1, <3>2 DEF Sent, Withdrawn
    <3>3. CASE q # r
      BY Facts, <1>3, <2>4, <3>1, <3>3 DEF Sent, Origins, EntriesOpen, Posed
    <3> QED
      BY <3>2, <3>3
  <2> QED
    BY <1>4, <1>5, <1>6, <2>5, <2>8, <2>9 DEF PInv
<1> QED
  BY <1>2, <1>8, <1>9

LEMMA ReadsResultPInv ==
  ASSUME PInv, NEW g \in Generations, ReadsResult(g)
  PROVE  PInv'
<1> USE DEF life, store
<1> DEFINE frame == Head(down[g])
<1>1. /\ g \in alive /\ down[g] # <<>> /\ down' = [down EXCEPT ![g] = Tail(@)]
      /\ UNCHANGED <<life, home, aborted, store, expired, up>>
  BY DEF ReadsResult
<1>2. /\ Tail(down[g]) \in Seq(Results) /\ Shrunk(down[g], Tail(down[g]))
      /\ down' \in [Generations -> Seq(Results)]
      /\ down'[g] = Tail(down[g]) /\ \A h \in Generations \ {g} : down'[h] = down[h]
  <2>1. down \in [Generations -> Seq(Results)] /\ down[g] \in Seq(Results)
    BY Facts
  <2>2. Tail(down[g]) \in Seq(Results) /\ Shrunk(down[g], Tail(down[g]))
    BY <1>1, <2>1, PipeShrinks
  <2> QED
    BY <1>1, <2>1, <2>2
<1>3. 1 \in DOMAIN down[g] /\ frame = down[g][1]
  BY <1>2 DEF Shrunk
<1>4. \A h \in Generations : \A k \in DOMAIN down'[h] :
        \E j \in DOMAIN down[h] : down'[h][k] = down[h][j]
  <2> SUFFICES ASSUME NEW h \in Generations, NEW k \in DOMAIN down'[h]
               PROVE  \E j \in DOMAIN down[h] : down'[h][k] = down[h][j]
    OBVIOUS
  <2>1. CASE h = g
    <3>1. k + 1 \in DOMAIN down[h] /\ down'[h][k] = down[h][k + 1]
      BY <1>2, <2>1 DEF Shrunk
    <3> QED
      BY <3>1
  <2>2. CASE h # g
    BY <1>2, <2>2
  <2> QED
    BY <2>1, <2>2
\* What is read is an answer to a question that is neither shown nor under way.
<1>5. /\ frame \in Results /\ frame.id \in Requests /\ frame.answer \in Answers
      /\ home[frame.id] = g /\ Posed(frame.id) /\ frame.id \notin entries
      /\ told[frame.id] \in {None, frame.answer}
  <2>1. frame \in Results /\ frame.id \in Requests
    BY Facts, <1>3
  <2>2. frame.answer \in Answers
    BY <2>1 DEF Results
  <2> QED
    BY Facts, <1>3, <2>1, <2>2 DEF DownInv
<1>6. /\ \A q \in Requests \ {frame.id} : asked'[q] = asked[q] /\ result'[q] = result[q]
      /\ asked[frame.id] = "maximal" =>
           asked'[frame.id] = "done" /\ result'[frame.id] = frame.answer
      /\ asked[frame.id] = "done" => asked' = asked /\ result' = result
      /\ asked' \in [Requests -> {"no", "client", "maximal", "done"}]
      /\ result' \in [Requests -> Answers \cup {None}]
  <2>1. CASE asked[frame.id] = "maximal"
    <3>1. /\ asked' = [asked EXCEPT ![frame.id] = "done"]
          /\ result' = [result EXCEPT ![frame.id] = frame.answer]
      BY <2>1 DEF ReadsResult, Settles
    <3> QED
      BY Facts, <1>5, <2>1, <3>1 DEF TypeOK
  <2>2. CASE asked[frame.id] # "maximal"
    <3>1. asked' = asked /\ result' = result
      BY <2>2 DEF ReadsResult
    <3> QED
      BY Facts, <2>2, <3>1 DEF TypeOK
  <2> QED
    BY <2>1, <2>2
<1> HIDE DEF frame
<1>7. TypeOK'
  BY Facts, <1>1, <1>2, <1>6 DEF TypeOK
<1>8. \A q \in Requests : Posed(q) => Posed(q)'
  BY <1>5, <1>6 DEF Posed
<1>9. Origins' /\ EntriesOpen'
  BY Facts, <1>1, <1>5, <1>6, <1>8 DEF Origins, EntriesOpen, Posed, TypeOK
<1>10. UpInv'
  <2> SUFFICES ASSUME NEW h \in Generations, NEW i \in DOMAIN up[h]
               PROVE  FrameInv(h, i)'
    BY <1>1 DEF UpInv
  <2> DEFINE q == up[h][i].id
  <2>1. /\ q \in Requests /\ home[q] = h /\ Posed(q) /\ Posed(q)'
        /\ up[h][i].kind = "elicit" => UnderWay(h, i)
    BY Facts, <1>1, <1>8 DEF UpInv, FrameInv, Posed
  <2>2. SUFFICES ASSUME UnderWay(h, i) PROVE UnderWay(h, i)'
    BY <1>1, <2>1 DEF FrameInv
  <2>3. q # frame.id
    BY <1>3, <1>5, <2>1, <2>2 DEF UnderWay
  <2>4. asked'[q] = asked[q] /\ FollowedUp(h, i)'
    BY <1>1, <1>6, <2>1, <2>2, <2>3 DEF UnderWay, FollowedUp
  <2>5. \A k \in DOMAIN down'[h] : down'[h][k].id # q
    BY <1>4, <2>2 DEF UnderWay
  <2> QED
    BY <1>1, <2>2, <2>4, <2>5 DEF UnderWay
<1>11. DownInv'
  <2> SUFFICES ASSUME NEW h \in Generations, NEW k \in DOMAIN down'[h]
               PROVE  /\ home[down'[h][k].id] = h /\ Posed(down[h][k].id)'
                      /\ down'[h][k].id \notin entries
                      /\ told[down'[h][k].id] \in {None, down'[h][k].answer}
    BY <1>1 DEF DownInv
  <2>1. PICK j \in DOMAIN down[h] : down'[h][k] = down[h][j]
    BY <1>4
  <2>2. /\ down[h][j].id \in Requests
        /\ home[down[h][j].id] = h /\ Posed(down[h][j].id)
        /\ down[h][j].id \notin entries
        /\ told[down[h][j].id] \in {None, down[h][j].answer}
    BY Facts DEF DownInv
  <2> QED
    BY <1>8, <2>1, <2>2 DEF Posed
<1>12. ShownIsAwaited'
  <2>1. \A q \in entries : q \in Requests /\ q # frame.id
    BY Facts, <1>5 DEF TypeOK
  <2> QED
    BY Facts, <1>1, <1>6, <2>1 DEF ShownIsAwaited
<1>13. OkIsDelivered'
  <2> SUFFICES ASSUME NEW q \in Requests, told[q] # None,
                      home[q] \notin stopped, q \notin aborted
               PROVE  \/ asked'[q] = "maximal" /\ Sent(down'[home[q]], [id |-> q, answer |-> told[q]])
                      \/ asked'[q] = "done" /\ result'[q] = told[q]
    BY <1>1 DEF OkIsDelivered
  <2>1. \/ asked[q] = "maximal" /\ Sent(down[home[q]], [id |-> q, answer |-> told[q]])
        \/ asked[q] = "done" /\ result[q] = told[q]
    BY Facts DEF OkIsDelivered
  <2>2. CASE q = frame.id
    BY <1>5, <1>6, <2>1, <2>2
  <2>3. CASE q # frame.id
    <3>1. asked'[q] = asked[q] /\ result'[q] = result[q]
      BY <1>6, <2>3
    <3>2. ASSUME Sent(down[home[q]], [id |-> q, answer |-> told[q]])
          PROVE  Sent(down'[home[q]], [id |-> q, answer |-> told[q]])
      <4>1. PICK i \in DOMAIN down[home[q]] : down[home[q]][i] = [id |-> q, answer |-> told[q]]
        BY <3>2 DEF Sent
      <4>2. CASE home[q] = g
        <5>1. i # 1
          BY <1>3, <2>3, <4>1, <4>2
        <5>2. i - 1 \in DOMAIN down'[home[q]] /\ down'[home[q]][i - 1] = down[home[q]][i]
          BY <1>2, <4>1, <4>2, <5>1 DEF Shrunk
        <5> QED
          BY <4>1, <5>2 DEF Sent
      <4>3. CASE home[q] # g
        <5>1. home[q] \in Generations
          BY Facts, <2>1 DEF Origins
        <5> QED
          BY <1>2, <4>1, <4>3, <5>1 DEF Sent
      <4> QED
        BY <4>2, <4>3
    <3> QED
      BY <2>1, <3>1, <3>2
  <2> QED
    BY <2>2, <2>3
<1> QED
  BY <1>7, <1>9, <1>10, <1>11, <1>12, <1>13 DEF PInv

\* Replies reaches the broker that asked, if it is the current one.
LEMMA RepliesFacts ==
  ASSUME PInv, NEW r \in Requests, NEW answer \in Answers, Replies(r, answer),
         home[r] \in Generations
  PROVE  /\ down' \in [Generations -> Seq(Results)]
         /\ \A h \in Generations : \A k \in DOMAIN down[h] :
              k \in DOMAIN down'[h] /\ down'[h][k] = down[h][k]
         /\ \A h \in Generations : \A k \in DOMAIN down'[h] :
              \/ k \in DOMAIN down[h]
              \/ h = home[r] /\ down'[h][k] = [id |-> r, answer |-> answer]
         /\ home[r] = generation => Sent(down'[home[r]], [id |-> r, answer |-> answer])
<1> DEFINE e == [id |-> r, answer |-> answer]
<1>1. CASE home[r] = generation
  <2>1. e \in Results /\ down \in [Generations -> Seq(Results)]
        /\ generation \in Generations /\ down[generation] \in Seq(Results)
    BY Facts, <1>1 DEF Results
  <2>2. down' = [down EXCEPT ![generation] = Append(@, e)]
    BY <1>1 DEF Replies
  <2> HIDE DEF e
  <2>3. /\ Append(down[generation], e) \in Seq(Results)
        /\ Grown(down[generation], Append(down[generation], e), e)
    BY <2>1, PipeGrows
  <2>4. /\ down' \in [Generations -> Seq(Results)]
        /\ \A h \in Generations \ {generation} : down'[h] = down[h]
        /\ Grown(down[generation], down'[generation], e)
    BY <2>1, <2>2, <2>3
  <2>5. Sent(down'[generation], e)
    BY <2>4 DEF Grown, Sent
  <2>6. \A h \in Generations : \A k \in DOMAIN down[h] :
          k \in DOMAIN down'[h] /\ down'[h][k] = down[h][k]
    BY <2>4 DEF Grown
  <2>7. \A h \in Generations : \A k \in DOMAIN down'[h] :
          k \in DOMAIN down[h] \/ (h = generation /\ down'[h][k] = e)
    <3>1. \A k \in DOMAIN down'[generation] :
            k \in DOMAIN down[generation] \/ down'[generation][k] = e
      BY <2>4 DEF Grown
    <3>2. \A h \in Generations \ {generation} : DOMAIN down'[h] = DOMAIN down[h]
      BY <2>4
    <3> QED
      BY <3>1, <3>2
  <2> QED
    BY <1>1, <2>4, <2>5, <2>6, <2>7 DEF e
<1>2. CASE home[r] # generation
  <2>1. down' = down
    BY <1>2 DEF Replies
  <2> QED
    BY Facts, <1>2, <2>1
<1> QED
  BY <1>1, <1>2

\* An answer of the user's to a question that is shown.
LEMMA AnsweredPInv ==
  ASSUME PInv, NEW r \in entries, NEW answer \in UserAnswers,
         entries' \subseteq entries \ {r}, told' = [told EXCEPT ![r] = answer],
         Replies(r, answer),
         UNCHANGED <<life, broker, expired, up>>
  PROVE  PInv'
<1> USE DEF life, broker
<1>1. /\ r \in Requests /\ answer \in Answers /\ told[r] = None /\ Posed(r)
      /\ asked[r] = "done" => r \in aborted
  BY Facts DEF EntriesOpen, TypeOK, UserAnswers, Answers
<1>2. home[r] \in Generations
  BY Facts, <1>1 DEF Origins, Posed
<1>3. /\ down' \in [Generations -> Seq(Results)]
      /\ \A h \in Generations : \A k \in DOMAIN down[h] :
           k \in DOMAIN down'[h] /\ down'[h][k] = down[h][k]
      /\ \A h \in Generations : \A k \in DOMAIN down'[h] :
           \/ k \in DOMAIN down[h]
           \/ h = home[r] /\ down'[h][k] = [id |-> r, answer |-> answer]
      /\ home[r] = generation => Sent(down'[home[r]], [id |-> r, answer |-> answer])
  BY <1>1, <1>2, RepliesFacts
<1>4. told'[r] = answer /\ \A q \in Requests \ {r} : told'[q] = told[q]
  BY Facts, <1>1 DEF TypeOK
<1>5. TypeOK'
  BY Facts, <1>1, <1>3 DEF TypeOK
<1>6. Origins' /\ EntriesOpen'
  BY Facts, <1>1, <1>4 DEF Origins, EntriesOpen, Posed, TypeOK
<1>7. UpInv'
  <2> SUFFICES ASSUME NEW h \in Generations, NEW i \in DOMAIN up[h]
               PROVE  FrameInv(h, i)'
    BY DEF UpInv
  <2> DEFINE q == up[h][i].id
  <2>1. /\ q \in Requests /\ home[q] = h /\ Posed(q)
        /\ up[h][i].kind = "elicit" => UnderWay(h, i)
    BY Facts DEF UpInv, FrameInv
  <2>2. SUFFICES ASSUME UnderWay(h, i) PROVE UnderWay(h, i)'
    BY <2>1 DEF FrameInv, Posed
  <2>3. q # r /\ FollowedUp(h, i)'
    BY <2>2 DEF UnderWay, FollowedUp
  <2>4. \A k \in DOMAIN down'[h] : down'[h][k].id # q
    BY <1>3, <2>2, <2>3 DEF UnderWay
  <2> QED
    BY <1>4, <2>1, <2>2, <2>3, <2>4 DEF UnderWay
<1>8. DownInv'
  <2> SUFFICES ASSUME NEW h \in Generations, NEW k \in DOMAIN down'[h]
               PROVE  /\ home[down'[h][k].id] = h /\ Posed(down[h][k].id)'
                      /\ down'[h][k].id \notin entries'
                      /\ told'[down'[h][k].id] \in {None, down'[h][k].answer}
    BY DEF DownInv
  <2>1. CASE k \in DOMAIN down[h]
    <3>1. /\ down'[h][k] = down[h][k] /\ down[h][k].id \in Requests
          /\ home[down[h][k].id] = h /\ Posed(down[h][k].id)
          /\ down[h][k].id \notin entries
          /\ told[down[h][k].id] \in {None, down[h][k].answer}
      BY Facts, <1>3, <2>1 DEF DownInv
    <3> QED
      BY <1>4, <3>1 DEF Posed
  <2>2. CASE k \notin DOMAIN down[h]
    <3>1. h = home[r] /\ down'[h][k].id = r /\ down'[h][k].answer = answer
      BY <1>3, <2>2
    <3> QED
      BY <1>1, <1>4, <3>1 DEF Posed
  <2> QED
    BY <2>1, <2>2
<1>9. ShownIsAwaited'
  BY Facts DEF ShownIsAwaited
<1>10. OkIsDelivered'
  <2> SUFFICES ASSUME NEW q \in Requests, told'[q] # None,
                      home[q] \notin stopped, q \notin aborted
               PROVE  \/ asked[q] = "maximal" /\ Sent(down'[home[q]], [id |-> q, answer |-> told'[q]])
                      \/ asked[q] = "done" /\ result[q] = told'[q]
    BY DEF OkIsDelivered
  <2>1. CASE q = r
    <3>1. home[r] = generation /\ asked[r] = "maximal"
      BY Facts, <1>1, <2>1 DEF ShownIsAwaited, Posed
    <3> QED
      BY <1>3, <1>4, <2>1, <3>1
  <2>2. CASE q # r
    <3>1. /\ told'[q] = told[q]
          /\ \/ asked[q] = "maximal" /\ Sent(down[home[q]], [id |-> q, answer |-> told[q]])
             \/ asked[q] = "done" /\ result[q] = told[q]
      BY Facts, <1>4, <2>2 DEF OkIsDelivered
    <3>2. asked[q] = "maximal" => home[q] \in Generations
      BY Facts DEF Origins
    <3> QED
      BY <1>3, <3>1, <3>2 DEF Sent
  <2> QED
    BY <2>1, <2>2
<1> QED
  BY <1>5, <1>6, <1>7, <1>8, <1>9, <1>10 DEF PInv

LEMMA AnswerPInv ==
  ASSUME PInv, NEW r \in Requests, NEW answer \in UserAnswers, NEW valid \in BOOLEAN,
         Answer(r, answer, valid)
  PROVE  PInv'
<1>1. CASE r \in Live /\ valid
  BY <1>1, AnsweredPInv DEF Answer, Live
<1>2. CASE ~(r \in Live /\ valid)
  <2>1. Look
    BY <1>2 DEF Answer, Look, broker, life
  <2> QED
    BY <2>1, LookPInv
<1> QED
  BY <1>1, <1>2

(* The sidecar reads a frame of the current broker: what is left of the     *)
(* pipe is as before.                                                       *)
LEMMA ReadsFrameFacts ==
  ASSUME PInv, generation # 0, up[generation] # <<>>,
         up' = [up EXCEPT ![generation] = Tail(@)]
  PROVE  /\ generation \in Generations
         /\ up' \in [Generations -> Seq(Frames)]
         /\ \A h \in Generations \ {generation} : up'[h] = up[h]
         /\ Shrunk(up[generation], up'[generation])
         /\ Head(up[generation]) \in Frames /\ Head(up[generation]).id \in Requests
         /\ 1 \in DOMAIN up[generation] /\ Head(up[generation]) = up[generation][1]
<1>1. generation \in Generations
  BY Facts DEF TypeOK, Generations
<1>2. up \in [Generations -> Seq(Frames)] /\ up[generation] \in Seq(Frames)
  BY Facts, <1>1
<1>3. Tail(up[generation]) \in Seq(Frames) /\ Shrunk(up[generation], Tail(up[generation]))
  BY <1>2, PipeShrinks
<1>4. 1 \in DOMAIN up[generation] /\ Head(up[generation]) = up[generation][1]
  BY <1>3 DEF Shrunk
<1>5. up[generation][1] \in Frames /\ up[generation][1].id \in Requests
  BY Facts, <1>1, <1>4
<1> QED
  BY <1>1, <1>2, <1>3, <1>4, <1>5

LEMMA ReadsFramePInv ==
  ASSUME PInv, NEW shown \in BOOLEAN, ReadsFrame(shown)
  PROVE  PInv'
<1> DEFINE frame == Head(up[generation])
           r == frame.id
<1> USE DEF life, broker
<1>1. /\ generation # 0 /\ up[generation] # <<>>
      /\ up' = [up EXCEPT ![generation] = Tail(@)]
      /\ UNCHANGED <<life, broker, told, expired>>
  BY DEF ReadsFrame
<1>2. /\ generation \in Generations
      /\ up' \in [Generations -> Seq(Frames)]
      /\ \A h \in Generations \ {generation} : up'[h] = up[h]
      /\ Shrunk(up[generation], up'[generation])
      /\ frame \in Frames /\ r \in Requests
      /\ 1 \in DOMAIN up[generation] /\ frame = up[generation][1]
  BY <1>1, ReadsFrameFacts
<1>3. /\ home[r] = generation /\ Posed(r)
      /\ frame.kind = "elicit" => UnderWay(generation, 1) /\ up[generation][1].id = r
  BY Facts, <1>2 DEF UpInv, FrameInv
<1>4. \/ frame.kind = "elicit" /\ entries' = entries \cup {r} /\ UNCHANGED down
      \/ frame.kind = "elicit" /\ entries' = entries /\ Replies(r, "decline")
      \/ frame.kind = "withdrawn" /\ entries' = entries \ {r} /\ UNCHANGED down
  BY DEF ReadsFrame
<1> HIDE DEF frame, r
\* What is left was there before, followed up as before, and is not the frame.
<1>5. ASSUME NEW h \in Generations, NEW i \in DOMAIN up'[h]
      PROVE  \E j \in DOMAIN up[h] :
               /\ up'[h][i] = up[h][j] /\ (h = generation => j # 1)
               /\ FollowedUp(h, j) => FollowedUp(h, i)'
               /\ (\A m \in DOMAIN up[h] : up[h][m] = up[h][j] => m = j)
                    => \A m \in DOMAIN up'[h] : up'[h][m] = up'[h][i] => m = i
  <2>1. CASE h = generation
    <3>1. i \in Nat \ {0} /\ i + 1 \in DOMAIN up[h] /\ up'[h][i] = up[h][i + 1] /\ i + 1 # 1
      BY <1>2, <2>1 DEF Shrunk
    <3>2. ASSUME FollowedUp(h, i + 1) PROVE FollowedUp(h, i)'
      <4>1. CASE asked[up[h][i + 1].id] = "maximal" \/ h \notin alive
        BY <1>1, <3>1, <4>1 DEF FollowedUp
      <4>2. CASE ~(asked[up[h][i + 1].id] = "maximal" \/ h \notin alive)
        <5>1. PICK m \in DOMAIN up[h] : i + 1 < m /\ up[h][m] = Withdrawn(up[h][i + 1].id)
          BY <3>2, <4>2 DEF FollowedUp
        <5>2. m \in Nat /\ m # 1 /\ i < m - 1
          BY Facts, <3>1, <5>1
        <5>3. m - 1 \in DOMAIN up'[h] /\ up'[h][m - 1] = up[h][m]
          BY <1>2, <2>1, <5>2 DEF Shrunk
        <5>4. up'[h][m - 1] = Withdrawn(up'[h][i].id)
          BY <3>1, <5>1, <5>3
        <5> QED
          BY <5>2, <5>3, <5>4 DEF FollowedUp, Withdrawn
      <4> QED
        BY <4>1, <4>2
    <3>3. ASSUME \A m \in DOMAIN up[h] : up[h][m] = up[h][i + 1] => m = i + 1,
                 NEW m \in DOMAIN up'[h], up'[h][m] = up'[h][i]
          PROVE  m = i
      <4>1. m \in Nat /\ m + 1 \in DOMAIN up[h] /\ up'[h][m] = up[h][m + 1]
        BY <1>2, <2>1 DEF Shrunk
      <4>2. m + 1 = i + 1
        BY <3>1, <3>3, <4>1
      <4> QED
        BY <3>1, <4>1, <4>2
    <3> QED
      BY <3>1, <3>2, <3>3
  <2>2. CASE h # generation
    BY <1>1, <1>2, <2>2 DEF FollowedUp
  <2> QED
    BY <2>1, <2>2
\* No other question of r is under way.
<1>6. ASSUME frame.kind = "elicit", NEW h \in Generations, NEW j \in DOMAIN up[h],
             h = generation => j # 1, up[h][j].kind = "elicit"
      PROVE  up[h][j].id # r
  <2>1. CASE h = generation
    <3>1. UnderWay(h, 1) /\ frame = up[h][1] /\ j # 1
      BY <1>2, <1>3, <1>6, <2>1
    <3>2. up[h][j] # frame
      BY <3>1 DEF UnderWay
    <3>3. up[h][j] \in Frames /\ frame \in Frames
      BY Facts, <1>2
    <3> QED
      BY <1>6, <3>2, <3>3 DEF Frames, r
  <2>2. CASE h # generation
    BY Facts, <1>3, <2>2 DEF UpInv, FrameInv
  <2> QED
    BY <2>1, <2>2
<1>7. ASSUME frame.kind = "elicit"
      PROVE  /\ r \notin entries /\ told[r] = None /\ (asked[r] = "done" => r \in aborted)
             /\ \/ asked[r] = "maximal" \/ generation \notin alive
                \/ Sent(up'[generation], Withdrawn(r))
             /\ \A h \in Generations : \A m \in DOMAIN down[h] : down[h][m].id # r
  <2>1. UnderWay(generation, 1) /\ up[generation][1].id = r
    BY <1>3, <1>7
  <2>2. ASSUME NEW m \in DOMAIN up[generation], 1 < m, up[generation][m] = Withdrawn(r)
        PROVE  Sent(up'[generation], Withdrawn(r))
    <3>1. m - 1 \in DOMAIN up'[generation] /\ up'[generation][m - 1] = up[generation][m]
      BY Facts, <1>2, <2>2 DEF Shrunk
    <3> QED
      BY <2>2, <3>1 DEF Sent
  <2>3. \/ asked[r] = "maximal" \/ generation \notin alive
        \/ Sent(up'[generation], Withdrawn(r))
    BY <2>1, <2>2 DEF UnderWay, FollowedUp
  <2>4. ASSUME NEW h \in Generations, NEW m \in DOMAIN down[h] PROVE down[h][m].id # r
    <3>1. CASE h = generation
      BY <2>1, <3>1 DEF UnderWay
    <3>2. CASE h # generation
      BY Facts, <1>3, <3>2 DEF DownInv
    <3> QED
      BY <3>1, <3>2
  <2> QED
    BY <2>1, <2>3, <2>4 DEF UnderWay
\* What the answers on their way are after the step.
<1>8. /\ down' \in [Generations -> Seq(Results)]
      /\ \A h \in Generations : \A m \in DOMAIN down[h] :
           m \in DOMAIN down'[h] /\ down'[h][m] = down[h][m]
      /\ \A h \in Generations : \A m \in DOMAIN down'[h] :
           \/ m \in DOMAIN down[h]
           \/ /\ h = home[r] /\ down'[h][m].id = r
              /\ frame.kind = "elicit" /\ entries' = entries
  <2>1. CASE UNCHANGED down
    BY Facts, <2>1
  <2>2. CASE frame.kind = "elicit" /\ entries' = entries /\ Replies(r, "decline")
    <3>1. home[r] \in Generations /\ "decline" \in Answers /\ Replies(r, "decline")
      BY <1>2, <1>3, <2>2 DEF Answers
    <3>2. /\ down' \in [Generations -> Seq(Results)]
          /\ \A h \in Generations : \A k \in DOMAIN down[h] :
               k \in DOMAIN down'[h] /\ down'[h][k] = down[h][k]
          /\ \A h \in Generations : \A k \in DOMAIN down'[h] :
               \/ k \in DOMAIN down[h]
               \/ h = home[r] /\ down'[h][k] = [id |-> r, answer |-> "decline"]
      BY <1>2, <3>1, RepliesFacts
    <3> QED
      BY <2>2, <3>2
  <2> QED
    BY <1>4, <2>1, <2>2
<1>9. /\ entries' \subseteq entries \cup {r}
      /\ frame.kind = "withdrawn" => r \notin entries' /\ down' = down
      /\ frame.kind \in {"elicit", "withdrawn"}
      /\ r \in entries' => frame.kind = "elicit" /\ down' = down
  BY <1>4, <1>7
<1>10. TypeOK'
  BY Facts, <1>1, <1>2, <1>8, <1>9 DEF TypeOK
<1>11. Origins' /\ EntriesOpen'
  BY Facts, <1>1, <1>2, <1>3, <1>7, <1>9 DEF Origins, EntriesOpen, Posed
<1>12. UpInv'
  <2> SUFFICES ASSUME NEW h \in Generations, NEW i \in DOMAIN up'[h]
               PROVE  FrameInv(h, i)'
    BY DEF UpInv
  <2>1. PICK j \in DOMAIN up[h] :
          /\ up'[h][i] = up[h][j] /\ (h = generation => j # 1)
          /\ FollowedUp(h, j) => FollowedUp(h, i)'
          /\ (\A m \in DOMAIN up[h] : up[h][m] = up[h][j] => m = j)
               => \A m \in DOMAIN up'[h] : up'[h][m] = up'[h][i] => m = i
    BY <1>5
  <2> DEFINE q == up[h][j].id
  <2>2. /\ q \in Requests /\ home[q] = h /\ Posed(q)
        /\ up[h][j].kind = "elicit" => UnderWay(h, j)
    BY Facts DEF UpInv, FrameInv
  <2>3. SUFFICES ASSUME UnderWay(h, j), up[h][j].kind = "elicit" PROVE UnderWay(h, i)'
    BY <1>1, <2>1, <2>2 DEF FrameInv, Posed
  <2>4. frame.kind = "elicit" => q # r
    BY <1>6, <2>1, <2>3
  <2>5. q \notin entries'
    BY <1>9, <2>3, <2>4 DEF UnderWay
  <2>6. \A m \in DOMAIN down'[h] : down'[h][m].id # q
    BY <1>8, <2>3, <2>4 DEF UnderWay
  <2> QED
    BY <1>1, <2>1, <2>3, <2>5, <2>6 DEF UnderWay
<1>13. DownInv'
  <2> SUFFICES ASSUME NEW h \in Generations, NEW m \in DOMAIN down'[h]
               PROVE  /\ home[down'[h][m].id] = h /\ Posed(down[h][m].id)'
                      /\ down'[h][m].id \notin entries'
                      /\ told[down'[h][m].id] \in {None, down'[h][m].answer}
    BY <1>1 DEF DownInv
  <2>1. CASE m \in DOMAIN down[h]
    <3>1. /\ down'[h][m] = down[h][m] /\ down[h][m].id \in Requests
          /\ home[down[h][m].id] = h /\ Posed(down[h][m].id)
          /\ down[h][m].id \notin entries
          /\ told[down[h][m].id] \in {None, down[h][m].answer}
      BY Facts, <1>8, <2>1 DEF DownInv
    <3>2. down[h][m].id \notin entries'
      BY <1>7, <1>9, <3>1
    <3> QED
      BY <1>1, <3>1, <3>2 DEF Posed
  <2>2. CASE m \notin DOMAIN down[h]
    <3>1. h = home[r] /\ down'[h][m].id = r /\ frame.kind = "elicit" /\ entries' = entries
      BY <1>8, <2>2
    <3> QED
      BY <1>1, <1>3, <1>7, <3>1 DEF Posed
  <2> QED
    BY <2>1, <2>2
<1>14. ShownIsAwaited'
  <2> SUFFICES ASSUME NEW q \in entries', home[q] \notin stopped
               PROVE  /\ home[q] = generation
                      /\ \/ asked[q] = "maximal" \/ home[q] \notin alive
                         \/ Sent(up'[generation], Withdrawn(q))
    BY <1>1 DEF ShownIsAwaited, Withdrawn
  <2>1. CASE q = r
    BY <1>3, <1>7, <1>9, <2>1
  <2>2. CASE q # r
    <3>1. /\ home[q] = generation
          /\ \/ asked[q] = "maximal" \/ home[q] \notin alive
             \/ Sent(up[generation], Withdrawn(q))
      BY Facts, <1>9, <2>2 DEF ShownIsAwaited, Withdrawn
    <3>2. ASSUME Sent(up[generation], Withdrawn(q)) PROVE Sent(up'[generation], Withdrawn(q))
      <4>1. PICK m \in DOMAIN up[generation] : up[generation][m] = Withdrawn(q)
        BY <3>2 DEF Sent
      <4>2. m # 1
        BY <1>2, <2>2, <4>1 DEF Withdrawn, r
      <4>3. m - 1 \in DOMAIN up'[generation] /\ up'[generation][m - 1] = up[generation][m]
        BY <1>2, <4>2 DEF Shrunk
      <4> QED
        BY <4>1, <4>3 DEF Sent
    <3> QED
      BY <3>1, <3>2
  <2> QED
    BY <2>1, <2>2
<1>15. OkIsDelivered'
  <2> SUFFICES ASSUME NEW q \in Requests, told[q] # None,
                      home[q] \notin stopped, q \notin aborted
               PROVE  \/ asked[q] = "maximal" /\ Sent(down'[home[q]], [id |-> q, answer |-> told[q]])
                      \/ asked[q] = "done" /\ result[q] = told[q]
    BY <1>1 DEF OkIsDelivered
  <2>1. /\ \/ asked[q] = "maximal" /\ Sent(down[home[q]], [id |-> q, answer |-> told[q]])
           \/ asked[q] = "done" /\ result[q] = told[q]
        /\ asked[q] = "maximal" => home[q] \in Generations
    BY Facts DEF OkIsDelivered, Origins
  <2> QED
    BY <1>8, <2>1 DEF Sent
<1> QED
  BY <1>10, <1>11, <1>12, <1>13, <1>14, <1>15 DEF PInv

LEMMA NextPInv == PInv /\ [Next]_vars => PInv'
<1> SUFFICES ASSUME PInv, [Next]_vars PROVE PInv'
  OBVIOUS
<1>1. ASSUME UNCHANGED vars PROVE PInv'
  BY <1>1 DEF vars, life, broker, store, PInv, TypeOK, Origins, EntriesOpen, UpInv,
     FrameInv, UnderWay, FollowedUp, Posed, DownInv, ShownIsAwaited, OkIsDelivered
<1> QED
  BY <1>1, ElicitPInv, ClientAnswersPInv, ClientFailsPInv, AbortPInv, ExpiresPInv, AnswerPInv,
     ReadsResultPInv, BrokerEndsPInv, ReadsFramePInv, LookPInv, LaunchPInv, LosesPInv,
     StopPInv, StopEndsPInv DEF Next

LEMMA AlwaysPInv == Spec => []PInv
  BY InitPInv, NextPInv, PTL DEF Spec

(* The two ends of the control channel agree about which questions are      *)
(* open: what Settings shows somebody still waits for, whichever of answer, *)
(* time limit, withdrawal and death comes first (#onElicit and #forget of   *)
(* pending-requests.ts against cancel and settle of                         *)
(* maximal-elicitations.ts).                                                *)
THEOREM ShownQuestionsAreOpen == Spec => []RequestsInvariant
<1>1. PInv => RequestsInvariant
  BY DEF PInv, RequestsInvariant
<1> QED
  BY <1>1, AlwaysPInv, PTL

(* An answer the user is told was sent is what the server gets, unless the  *)
(* question was taken back first or its broker told to stop; a second       *)
(* answer never replaces the first (answer of pending-requests.ts, settle). *)
THEOREM AnswersArrive == Spec => []OkIsDelivered
<1>1. PInv => OkIsDelivered
  BY DEF PInv
<1> QED
  BY <1>1, AlwaysPInv, PTL
=============================================================================
