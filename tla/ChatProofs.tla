------------------------------- MODULE ChatProofs -------------------------------
(***************************************************************************)
(* Proofs about ChatSession, for any number of tabs, of scripts that overlap   *)
(* in a tab, of sessions and prompts, and any faults.                         *)
(***************************************************************************)
EXTENDS ChatSession, SequenceTheorems, FiniteSetTheorems, TLAPS

-----------------------------------------------------------------------------
(* Types.                                                                      *)

AnyObserver == [session : Session \cup {None}, run : Record \cup {None}]
AnyTurn == [prompt : Prompt, run : Run]
AnyRow == [id : Session, title : Prompt, turns : Nat \ {0}]

Types ==
  /\ page \in [Actor -> Page]
  /\ \A t \in Tab : page[t].session \in Session
  /\ script \in [Actor -> [Script -> Running]]
  /\ observer \in [Actor -> AnyObserver]
  /\ log \in Seq(Record)
  /\ rows \in SUBSET Record
  /\ sessions \in Seq(AnyRow)
  /\ history \in [Session -> Seq(AnyTurn)]
  /\ ran \in Seq(Ran)
  /\ typed \in 0..MaxPrompts
  /\ confirms \in [Tab -> Nat]

-----------------------------------------------------------------------------
(* What a script has in hand. *)

Switching == {"new", "resume"}
Asking == {"obsoleting", "saying", "asked"}
InGraph == {"bound", "opened", "invoked", "ran", "storing", "closing"}
HasRun == (InGraph \ {"bound"}) \cup {"answered", "proposing"}
Waiting == InGraph \cup {"asked", "answered"}
Prompted == Asking \cup InGraph \cup {"answered", "proposing"}

\* Script c of actor a, among the runs R.
Fits(c, a, R) ==
  /\ c.stopped => c.at \in InGraph \cup {"idle"}
  /\ c.at = "top" /\ c.trigger \in {"type", "card"} => c.typed \in Prompt
  /\ c.at \in Prompted => c.prompt \in Prompt
  /\ c.at \in Asking \cup {"bound"} /\ c.gate = 0 => c.click = 0
  /\ c.at \notin Prompted => c.gate = 0 /\ c.click = 0
  /\ c.at = "new" => c.step \in 1..4 /\ c.read = 0
  /\ c.at = "resume" => c.step \in 1..5
  /\ c.at = "panel" => c.trigger \in {"confirm", "cancel"}
  /\ c.at = "bound" => c.session \in Session
  /\ c.at = "storing" => c.record # None
  /\ c.at \in HasRun =>
       /\ c.run \in DOMAIN R
       /\ R[c.run].prompt = c.prompt /\ R[c.run].session = c.session
       /\ R[c.run].actor = a
       /\ c.at # "opened" => c.outcome \in Outcome
       /\ c.outcome = "gated" /\ c.at # "opened" => R[c.run].outcome = "gated"
  /\ c.at = "proposing" => c.outcome = "gated"
  /\ a = Repl => c.at \in InGraph \cup {"idle"} /\ c.at # "bound" /\ c.gate = 0

Live(c) == c.at # "idle" /\ ~c.stopped

\* No proposal that has not been confirmed.
Unasked(p) == p.pending = None \/ p.pending.spent

\* Script c is the one that page p waits for.
Serves(c, p) ==
  /\ c.at \in Switching => p.torn
  /\ c.at = "new" =>
       /\ c.step > 1 => p.messages = <<>>
       /\ c.step > 2 => p.pending = None
       /\ c.step > 3 => p.bypass = None
  /\ c.at = "resume" =>
       /\ c.step > 1 => p.pending = None
       /\ c.step > 2 => p.bypass = None
  /\ c.at \in Prompted => p.bypass = None
  /\ c.at \in Prompted \ {"obsoleting"} => Unasked(p)
  /\ c.at \in {"panel", "confirming"} => p.pending # None
  /\ c.at = "confirming" => p.pending.spent
  /\ c.at \in Waiting =>
       p.messages # <<>> /\ Last(p.messages) = User(c.prompt, p.session)
  /\ c.at \in (Waiting \ {"asked"}) \cup {"proposing"} => c.session = p.session
  /\ c.at = "proposing" =>
       /\ p.messages # <<>>
       /\ Last(p.messages).kind = "gated" /\ Last(p.messages).run = c.run

\* A tab's scripts s: at most one is not stopped, and the page is its own.
Current(s, p) ==
  /\ \A i \in Script : Live(s[i]) => Serves(s[i], p)
  /\ \A i, j \in Script : Live(s[i]) /\ Live(s[j]) => i = j

\* A conversation.
Talk(p, R) ==
  \A k \in DOMAIN p.messages :
    LET m == p.messages
    IN /\ ~p.torn => m[k].session = p.session
       /\ m[k].role = "assistant" =>
            /\ k > 1 /\ m[k - 1] = User(m[k].prompt, m[k].session)
            /\ m[k].run \in DOMAIN R
            /\ R[m[k].run].prompt = m[k].prompt /\ R[m[k].run].session = m[k].session

Proposed(p, R) ==
  /\ p.bypass # None => Unasked(p)
  /\ p.pending # None /\ ~p.torn /\ ~p.pending.spent =>
       /\ p.messages # <<>>
       /\ Last(p.messages).kind = "gated" /\ Last(p.messages).run = p.pending.gate
       /\ R[p.pending.gate].session = p.session

\* The turns in a checkpoint are runs of the session.
Past(h, s, R) ==
  \A k \in DOMAIN h :
    /\ h[k].run \in DOMAIN R
    /\ R[h[k].run].prompt = h[k].prompt /\ R[h[k].run].session = s

\* A switch shows no more turns than there are.
Reads(c, p, H) == c.at = "resume" => c.read <= Len(H[p.session])

-----------------------------------------------------------------------------
(* A click on the panel gives one permission to pass the gate, which goes from  *)
(* the script of the click to the page, to the script of the confirmed prompt  *)
(* and to its run.  n counts the clicks of the tab.                            *)

\* The click whose permission a script has for its prompt, or a page; 0 if none.
Permit(c) == IF c.at \in Asking \cup {"bound"} THEN c.click ELSE 0
OnPage(p) == IF p.bypass # None THEN p.bypass.click ELSE 0
\* A script that has been clicked on to give it.
Gives(c) == Live(c) /\ c.trigger = "confirm" /\ c.at # "confirming"

\* Run g of tab t has been stopped with prompt q.
Gated(g, t, q, R) ==
  g \in DOMAIN R /\ R[g].outcome = "gated" /\ R[g].actor = t /\ R[g].prompt = q

Unused(k, t, R) == \A q \in DOMAIN R : R[q].actor = t => R[q].click # k

HoldsScript(c, t, R, n) ==
  /\ Permit(c) # 0 => Permit(c) \in 1..n /\ Unused(Permit(c), t, R)
  /\ c.at \in Asking \cup {"bound"} /\ c.gate # 0 =>
       c.click # 0 /\ Gated(c.gate, t, c.prompt, R)
  /\ Gives(c) => c.confirm = n /\ n # 0 /\ Permit(c) # n /\ Unused(n, t, R)

HoldsPage(t, p, R, n) ==
  /\ p.bypass # None =>
       /\ OnPage(p) \in 1..n /\ Unused(OnPage(p), t, R)
       /\ Gated(p.bypass.gate, t, p.bypass.prompt, R)
  /\ p.pending # None => Gated(p.pending.gate, t, p.pending.prompt, R)

Apart(s, p, n) ==
  /\ \A i, j \in Script : i # j /\ Permit(s[i]) # 0 => Permit(s[i]) # Permit(s[j])
  /\ \A i \in Script : OnPage(p) # 0 => OnPage(p) # Permit(s[i])
  /\ \A i, j \in Script : Gives(s[i]) => Permit(s[j]) # n
  /\ \A i \in Script : Gives(s[i]) => OnPage(p) # n

Holds(t, s, p, R, n) ==
  /\ \A i \in Script : HoldsScript(s[i], t, R, n)
  /\ HoldsPage(t, p, R, n)
  /\ Apart(s, p, n)

Bypassed(R, N) ==
  \A r \in DOMAIN R :
    IF R[r].gate = 0 THEN R[r].click = 0
    ELSE /\ Gated(R[r].gate, R[r].actor, R[r].prompt, R)
         /\ R[r].actor \in Tab /\ R[r].click \in 1..N[R[r].actor]
         /\ \A q \in DOMAIN R : R[q].actor = R[r].actor /\ R[q].click = R[r].click => q = r

\* Pages P, scripts S, runs R, clicks N on the panels.
Sound(P, S, R, N) ==
  /\ \A a \in Actor, i \in Script : Fits(S[a][i], a, R)
  /\ \A t \in Tab : Current(S[t], P[t])
  /\ \A t \in Tab : Talk(P[t], R) /\ Proposed(P[t], R)
  /\ \A t \in Tab : Holds(t, S[t], P[t], R, N[t])
  /\ Bypassed(R, N)

\* A run has one script; one that is about to be invoked has not been gated.
Owned(S, R) ==
  \A a \in Actor, i \in Script :
    S[a][i].at \in HasRun =>
      /\ S[a][i].at = "opened" => R[S[a][i].run].outcome # "gated"
      /\ \A b \in Actor, j \in Script :
           S[b][j].at \in HasRun /\ S[b][j].run = S[a][i].run => b = a /\ j = i

CInv ==
  /\ Types
  /\ Sound(page, script, ran, confirms)
  /\ Owned(script, ran)
  /\ \A s \in Session : Past(history[s], s, ran)
  /\ \A t \in Tab, i \in Script : Reads(script[t][i], page[t], history)

-----------------------------------------------------------------------------
(* Runs are only added, and what is known of one stays known.                  *)

\* Q has the runs of R, as they were; a gated one is still gated.
Keeps(R, Q) ==
  /\ DOMAIN R \subseteq DOMAIN Q
  /\ \A r \in DOMAIN R :
       /\ Q[r].actor = R[r].actor /\ Q[r].session = R[r].session
       /\ Q[r].prompt = R[r].prompt /\ Q[r].gate = R[r].gate /\ Q[r].click = R[r].click
       /\ R[r].outcome = "gated" => Q[r].outcome = "gated"

Same(R, Q) == Keeps(R, Q) /\ DOMAIN Q = DOMAIN R

LEMMA FitsKept ==
  ASSUME NEW R, NEW Q, Keeps(R, Q), NEW c, NEW a, Fits(c, a, R)
  PROVE  Fits(c, a, Q)
BY DEF Keeps, Fits

LEMMA TalkKept ==
  ASSUME NEW R, NEW Q, Keeps(R, Q), NEW p, Talk(p, R)
  PROVE  Talk(p, Q)
BY DEF Keeps, Talk

LEMMA PastKept ==
  ASSUME NEW R, NEW Q, Keeps(R, Q), NEW h, NEW s, Past(h, s, R)
  PROVE  Past(h, s, Q)
BY DEF Keeps, Past

LEMMA GatedKept ==
  ASSUME NEW R, NEW Q, Keeps(R, Q), NEW g, NEW t, NEW q, Gated(g, t, q, R)
  PROVE  Gated(g, t, q, Q)
BY DEF Keeps, Gated

LEMMA ProposedKept ==
  ASSUME NEW R, NEW Q, Keeps(R, Q), NEW p, NEW t, NEW n, Proposed(p, R),
         HoldsPage(t, p, R, n)
  PROVE  Proposed(p, Q)
BY DEF Keeps, Proposed, HoldsPage, Gated

LEMMA HoldsScriptSame ==
  ASSUME NEW R, NEW Q, Same(R, Q), NEW c, NEW t, NEW n, HoldsScript(c, t, R, n)
  PROVE  HoldsScript(c, t, Q, n)
BY GatedKept DEF Same, Keeps, HoldsScript, Unused

LEMMA HoldsPageSame ==
  ASSUME NEW R, NEW Q, Same(R, Q), NEW t, NEW p, NEW n, HoldsPage(t, p, R, n)
  PROVE  HoldsPage(t, p, Q, n)
BY GatedKept DEF Same, Keeps, HoldsPage, Unused

LEMMA BypassedSame ==
  ASSUME NEW R, NEW Q, Same(R, Q), NEW N, Bypassed(R, N)
  PROVE  Bypassed(Q, N)
BY DEF Same, Keeps, Bypassed, Gated

-----------------------------------------------------------------------------
(* A step of one script, with what it does to the page of its tab.             *)

\* Two scripts that differ only in alone.
Alike(c, d) ==
  /\ c.at = d.at /\ c.stopped = d.stopped /\ c.trigger = d.trigger /\ c.typed = d.typed
  /\ c.confirm = d.confirm /\ c.step = d.step /\ c.read = d.read
  /\ c.prompt = d.prompt /\ c.gate = d.gate /\ c.click = d.click
  /\ c.session = d.session /\ c.run = d.run /\ c.outcome = d.outcome
  /\ c.record = d.record

LEMMA AlikeSame ==
  ASSUME NEW c, NEW d, Alike(c, d), NEW a, NEW p, NEW R, NEW n
  PROVE  /\ Fits(d, a, R) => Fits(c, a, R)
         /\ Serves(d, p) => Serves(c, p)
         /\ Live(c) = Live(d) /\ Permit(c) = Permit(d) /\ Gives(c) = Gives(d)
         /\ HoldsScript(d, a, R, n) => HoldsScript(c, a, R, n)
<1>1. Live(c) = Live(d) /\ Permit(c) = Permit(d) /\ Gives(c) = Gives(d)
  BY DEF Alike, Live, Permit, Gives
<1>2. Fits(d, a, R) => Fits(c, a, R)
  BY DEF Alike, Fits
<1>3. Serves(d, p) => Serves(c, p)
  BY DEF Alike, Serves
<1>4. HoldsScript(d, a, R, n) => HoldsScript(c, a, R, n)
  BY <1>1 DEF Alike, HoldsScript
<1> QED
  BY <1>1, <1>2, <1>3, <1>4

\* In tab t script c becomes d and page p becomes q, with the runs R.
Moves(t, c, d, p, q, R, n) ==
  /\ HoldsScript(d, t, R, n) /\ HoldsPage(t, q, R, n)
  /\ Talk(q, R) /\ Proposed(q, R)
  /\ Live(d) => Serves(d, q)
  /\ Live(c) \/ (q = p /\ ~Live(d))
  /\ Gives(d) => Gives(c)
  /\ Permit(d) \in {0, Permit(c), OnPage(p)}
  /\ \/ OnPage(q) \in {0, OnPage(p)}
     \/ Gives(c) /\ ~Gives(d) /\ OnPage(q) = n
  /\ Permit(d) # 0 => Permit(d) # OnPage(q)

LEMMA ApartKept ==
  ASSUME NEW t, NEW S, NEW S2, NEW p, NEW q, NEW R, NEW n, NEW i \in Script,
         Current(S, p), Holds(t, S, p, R, n),
         \A j \in Script \ {i} : Alike(S2[j], S[j]), NEW Q,
         Moves(t, S[i], S2[i], p, q, Q, n)
  PROVE  Apart(S2, q, n)
<1>1. /\ Apart(S, p, n) /\ \A j \in Script : HoldsScript(S[j], t, R, n)
      /\ HoldsPage(t, p, R, n)
  BY DEF Holds
<1>2. \A j \in Script \ {i} : Permit(S2[j]) = Permit(S[j]) /\ Gives(S2[j]) = Gives(S[j])
  BY AlikeSame
<1>3. ASSUME NEW j \in Script, NEW k \in Script, j # k, Permit(S2[j]) # 0
      PROVE  Permit(S2[j]) # Permit(S2[k])
  BY <1>1, <1>2, <1>3 DEF Apart, Moves
<1>4. ASSUME NEW j \in Script, OnPage(q) # 0
      PROVE  OnPage(q) # Permit(S2[j])
  BY <1>1, <1>2, <1>4 DEF Apart, Moves
<1>5. ASSUME NEW j \in Script, Gives(S2[j])
      PROVE  Gives(S[j]) /\ n # 0 /\ Live(S[j])
  BY <1>1, <1>2, <1>5 DEF HoldsScript, Moves, Gives
<1>6. ASSUME NEW j \in Script, NEW k \in Script, Gives(S2[j])
      PROVE  Permit(S2[k]) # n
  BY <1>1, <1>2, <1>5, <1>6 DEF Apart, Moves
<1>7. ASSUME NEW j \in Script, Gives(S2[j])
      PROVE  OnPage(q) # n
  <2>1. CASE OnPage(q) \in {0, OnPage(p)}
    BY <2>1, <1>1, <1>5, <1>7 DEF Apart
  <2>2. CASE Gives(S[i]) /\ ~Gives(S2[i])
    <3>1. j # i /\ Live(S[i])
      BY <2>2, <1>7 DEF Gives
    <3> QED
      BY <3>1, <1>5, <1>7 DEF Current
  <2> QED
    BY <2>1, <2>2 DEF Moves
<1> QED
  BY <1>3, <1>4, <1>6, <1>7 DEF Apart

LEMMA CurrentKept ==
  ASSUME NEW t, NEW S, NEW S2, NEW p, NEW q, NEW n, NEW i \in Script,
         Current(S, p), \A j \in Script \ {i} : Alike(S2[j], S[j]), NEW Q,
         Moves(t, S[i], S2[i], p, q, Q, n)
  PROVE  Current(S2, q)
<1>1. \A j \in Script \ {i} : Live(S2[j]) = Live(S[j])
  BY AlikeSame
<1>2. \A j \in Script \ {i} : Live(S[j]) => ~Live(S[i])
  BY DEF Current
<1>3. Live(S2[i]) => Live(S[i]) /\ Serves(S2[i], q)
  BY DEF Moves
<1>4. ASSUME NEW j \in Script, Live(S2[j])
      PROVE  Serves(S2[j], q)
  <2>1. CASE j = i
    BY <2>1, <1>3, <1>4
  <2>2. CASE j # i
    <3>1. Live(S[j]) /\ q = p
      BY <2>2, <1>1, <1>2, <1>4 DEF Moves
    <3>2. Serves(S[j], p)
      BY <3>1 DEF Current
    <3> QED
      BY <3>1, <3>2, <2>2, AlikeSame
  <2> QED
    BY <2>1, <2>2
<1>5. ASSUME NEW j \in Script, NEW k \in Script, Live(S2[j]), Live(S2[k])
      PROVE  j = k
  BY <1>1, <1>3, <1>5 DEF Current
<1> QED
  BY <1>4, <1>5 DEF Current

\* Script i of a moves on.
LEMMA OneStep ==
  ASSUME NEW P, NEW S, NEW R, NEW N, NEW P2, NEW S2, NEW R2,
         NEW a \in Actor, NEW i \in Script,
         Sound(P, S, R, N), Same(R, R2),
         \A b \in Actor \ {a} : P2[b] = P[b] /\ S2[b] = S[b],
         \A j \in Script \ {i} : Alike(S2[a][j], S[a][j]),
         Fits(S2[a][i], a, R2),
         a \in Tab => Moves(a, S[a][i], S2[a][i], P[a], P2[a], R2, N[a])
  PROVE  Sound(P2, S2, R2, N)
<1>1. ASSUME NEW b \in Actor, NEW j \in Script
      PROVE  Fits(S2[b][j], b, R2)
  <2>1. Fits(S[b][j], b, R2)
    BY FitsKept DEF Same, Sound
  <2>2. CASE b # a
    BY <2>1, <2>2
  <2>3. CASE b = a /\ j # i
    BY <2>1, <2>3, AlikeSame
  <2> QED
    BY <2>2, <2>3
<1>2. ASSUME NEW t \in Tab
      PROVE  /\ t \in Actor /\ Current(S[t], P[t]) /\ Holds(t, S[t], P[t], R, N[t])
             /\ Talk(P[t], R) /\ Proposed(P[t], R)
  BY DEF Actor, Sound
<1>3. ASSUME NEW t \in Tab
      PROVE  Current(S2[t], P2[t])
  <2>1. CASE t # a
    BY <2>1, <1>2
  <2>2. CASE t = a
    BY <2>2, <1>2, CurrentKept
  <2> QED
    BY <2>1, <2>2
<1>4. ASSUME NEW t \in Tab
      PROVE  Talk(P2[t], R2) /\ Proposed(P2[t], R2)
  <2>1. CASE t # a
    <3>1. HoldsPage(t, P[t], R, N[t])
      BY <1>2 DEF Holds
    <3> QED
      BY <2>1, <3>1, <1>2, TalkKept, ProposedKept DEF Same
  <2>2. CASE t = a
    BY <2>2 DEF Moves
  <2> QED
    BY <2>1, <2>2
<1>5. ASSUME NEW t \in Tab
      PROVE  Holds(t, S2[t], P2[t], R2, N[t])
  <2>1. \A j \in Script : HoldsScript(S[t][j], t, R2, N[t])
    BY <1>2, HoldsScriptSame DEF Holds
  <2>2. HoldsPage(t, P[t], R2, N[t])
    BY <1>2, HoldsPageSame DEF Holds
  <2>3. CASE t # a
    BY <1>2, <2>1, <2>2, <2>3 DEF Holds
  <2>4. CASE t = a
    <3>1. HoldsScript(S2[t][i], t, R2, N[t]) /\ HoldsPage(t, P2[t], R2, N[t])
      BY <2>4 DEF Moves
    <3>2. \A j \in Script : HoldsScript(S2[t][j], t, R2, N[t])
      BY <2>1, <2>4, <3>1, AlikeSame
    <3>3. Apart(S2[t], P2[t], N[t])
      BY <1>2, <2>4, ApartKept
    <3> QED
      BY <3>1, <3>2, <3>3 DEF Holds
  <2> QED
    BY <2>3, <2>4
<1>6. Bypassed(R2, N)
  BY BypassedSame DEF Sound
<1> QED
  BY <1>1, <1>3, <1>4, <1>5, <1>6 DEF Sound

-----------------------------------------------------------------------------
(* The first state.                                                           *)

LEMMA IdleType ==
  /\ Idle \in Running
  /\ \A b \in BOOLEAN : [Idle EXCEPT !.stopped = b] \in Running
BY DEF Idle, Running, At, Trigger

LEMMA NewPageType ==
  ASSUME NEW s \in Session \cup {None}
  PROVE  /\ NewPage(s) \in Page
         /\ NewPage(s).session = s /\ NewPage(s).messages = <<>>
         /\ NewPage(s).pending = None /\ NewPage(s).bypass = None
         /\ NewPage(s).card = None
BY DEF NewPage, Page

\* Nothing is known of an idle script, and nothing needed.
LEMMA IdleFits ==
  ASSUME NEW c, c.at = "idle", c.gate = 0, c.click = 0, NEW a, NEW R, NEW n
  PROVE  /\ Fits(c, a, R) /\ ~Live(c) /\ Permit(c) = 0 /\ ~Gives(c)
         /\ HoldsScript(c, a, R, n)
BY DEF Fits, Live, Permit, Gives, HoldsScript, Prompted, Asking, InGraph, HasRun

LEMMA IdleFields == Idle.at = "idle" /\ Idle.gate = 0 /\ Idle.click = 0
BY DEF Idle

\* A page without messages and proposals.
LEMMA EmptyPage ==
  ASSUME NEW p, p.messages = <<>>, p.pending = None, p.bypass = None, NEW R, NEW t, NEW n
  PROVE  Talk(p, R) /\ Proposed(p, R) /\ HoldsPage(t, p, R, n) /\ OnPage(p) = 0
<1>1. \A k \in DOMAIN p.messages : FALSE
  OBVIOUS
<1>2. Talk(p, R)
  BY <1>1 DEF Talk
<1> QED
  BY <1>2 DEF Proposed, HoldsPage, OnPage

LEMMA Starts ==
  ASSUME Init
  PROVE  CInv
<1> USE DEF Init
<1>1. PICK own \in [Tab -> Session] :
        page = [a \in Actor |-> NewPage(IF a = Repl THEN None ELSE own[a])]
  BY SessionAssumption
<1>2. \A a \in Actor : /\ page[a] = NewPage(IF a = Repl THEN None ELSE own[a])
                       /\ (IF a = Repl THEN None ELSE own[a]) \in Session \cup {None}
  BY <1>1 DEF Actor
<1>3. ASSUME NEW a \in Actor
      PROVE  /\ page[a] \in Page /\ page[a].messages = <<>>
             /\ page[a].pending = None /\ page[a].bypass = None
  <2> DEFINE s == IF a = Repl THEN None ELSE own[a]
  <2>1. page[a] = NewPage(s) /\ s \in Session \cup {None}
    BY ONLY <1>2, a \in Actor
  <2> HIDE DEF s
  <2> QED
    BY ONLY <2>1, NewPageType
<1>4. \A t \in Tab : t \in Actor /\ page[t].session \in Session
  BY <1>2, NewPageType, NameAssumption DEF Actor
<1>5. \A a \in Actor, i \in Script : script[a][i] = Idle
  OBVIOUS
<1>6. Types
  <2>1. page \in [Actor -> Page]
    BY <1>1, <1>3
  <2>2. script \in [Actor -> [Script -> Running]]
    BY IdleType
  <2>3. <<>> \in Seq(Record) /\ <<>> \in Seq(AnyRow) /\ <<>> \in Seq(Ran)
        /\ <<>> \in Seq(AnyTurn)
    OBVIOUS
  <2>4. 0 \in 0..MaxPrompts
    BY ScriptAssumption
  <2> QED
    BY <2>1, <2>2, <2>3, <2>4, <1>4 DEF Types, AnyObserver
<1>7. \A a \in Actor, i \in Script :
        /\ Fits(script[a][i], a, ran) /\ ~Live(script[a][i]) /\ ~Gives(script[a][i])
        /\ Permit(script[a][i]) = 0 /\ script[a][i].at = "idle"
        /\ \A n : HoldsScript(script[a][i], a, ran, n)
  BY <1>5, IdleFits, IdleFields
<1>8. Sound(page, script, ran, confirms)
  <2>1. \A t \in Tab : /\ Talk(page[t], ran) /\ Proposed(page[t], ran)
                       /\ HoldsPage(t, page[t], ran, confirms[t]) /\ OnPage(page[t]) = 0
    BY <1>3, <1>4, EmptyPage
  <2>2. \A t \in Tab : Current(script[t], page[t])
    BY <1>4, <1>7 DEF Current
  <2>3. \A t \in Tab : Holds(t, script[t], page[t], ran, confirms[t])
    BY <1>4, <1>7, <2>1 DEF Holds, Apart
  <2>4. Bypassed(ran, confirms)
    BY DEF Bypassed
  <2> QED
    BY <1>7, <2>1, <2>2, <2>3, <2>4 DEF Sound
<1>9. Owned(script, ran)
  BY <1>7 DEF Owned, HasRun, InGraph
<1>10. \A s \in Session : Past(history[s], s, ran)
  BY DEF Past
<1>11. \A t \in Tab, i \in Script : Reads(script[t][i], page[t], history)
  BY <1>4, <1>7 DEF Reads
<1> QED
  BY <1>6, <1>8, <1>9, <1>10, <1>11 DEF CInv

-----------------------------------------------------------------------------
(* The steps of a run.                                                        *)

LEMMA ScriptAt ==
  ASSUME NEW S \in [Actor -> [Script -> Running]], NEW a \in Actor, NEW i \in Script,
         NEW d \in Running, NEW S2, S2 = [S EXCEPT ![a][i] = d]
  PROVE  /\ S2 \in [Actor -> [Script -> Running]]
         /\ S2[a][i] = d
         /\ \A b \in Actor \ {a} : S2[b] = S[b]
         /\ \A j \in Script \ {i} : S2[a][j] = S[a][j] /\ Alike(S2[a][j], S[a][j])
<1> HIDE DEF Running
<1>1. S2[a] = [S[a] EXCEPT ![i] = d]
  OBVIOUS
<1>2. \A j \in Script \ {i} : S2[a][j] = S[a][j]
  BY <1>1
<1> QED
  BY <1>1, <1>2 DEF Alike

LEMMA RanAt ==
  ASSUME NEW R \in Seq(Ran), NEW r \in DOMAIN R, NEW x, NEW R2,
         R2 = [R EXCEPT ![r] = x], x \in Ran
  PROVE  /\ R2 \in Seq(Ran) /\ DOMAIN R2 = DOMAIN R
         /\ R2[r] = x /\ \A q \in DOMAIN R \ {r} : R2[q] = R[q]
<1> HIDE DEF Ran
<1> QED
  OBVIOUS

LEMMA OwnedKept ==
  ASSUME NEW S, NEW R, NEW S2, NEW R2, NEW a \in Actor, NEW i \in Script,
         Owned(S, R),
         \A b \in Actor \ {a} : S2[b] = S[b],
         \A j \in Script \ {i} : Alike(S2[a][j], S[a][j]),
         S2[a][i].at \in HasRun => S[a][i].at \in HasRun /\ S2[a][i].run = S[a][i].run,
         S2[a][i].at # "opened",
         \A b \in Actor, j \in Script :
           S[b][j].at = "opened" /\ (b # a \/ j # i) =>
             R2[S[b][j].run].outcome = R[S[b][j].run].outcome
  PROVE  Owned(S2, R2)
<1>1. \A b \in Actor, j \in Script :
        /\ b # a \/ j # i => S2[b][j].at = S[b][j].at /\ S2[b][j].run = S[b][j].run
        /\ S2[b][j].at \in HasRun => S[b][j].at \in HasRun /\ S2[b][j].run = S[b][j].run
  BY DEF Alike
<1> SUFFICES ASSUME NEW b \in Actor, NEW j \in Script, S2[b][j].at \in HasRun
             PROVE  /\ S2[b][j].at = "opened" => R2[S2[b][j].run].outcome # "gated"
                    /\ \A e \in Actor, k \in Script :
                         S2[e][k].at \in HasRun /\ S2[e][k].run = S2[b][j].run
                           => e = b /\ k = j
  BY DEF Owned
<1>2. S2[b][j].at = "opened" => R2[S2[b][j].run].outcome # "gated"
  BY <1>1 DEF Owned
<1>3. ASSUME NEW e \in Actor, NEW k \in Script, S2[e][k].at \in HasRun,
             S2[e][k].run = S2[b][j].run
      PROVE  e = b /\ k = j
  BY <1>1, <1>3 DEF Owned
<1> QED
  BY <1>2, <1>3

\* What Fits and Current say of one script.
LEMMA OwnScript ==
  ASSUME CInv, NEW a \in Actor, NEW i \in Script
  PROVE  /\ script[a][i] \in Running /\ Fits(script[a][i], a, ran)
         /\ page[a] \in Page
         /\ a \in Tab => /\ Live(script[a][i]) => Serves(script[a][i], page[a])
                         /\ HoldsScript(script[a][i], a, ran, confirms[a])
BY DEF CInv, Sound, Types, Current, Holds

\* What the run of a script is.
LEMMA OwnRun ==
  ASSUME CInv, NEW a \in Actor, NEW i \in Script, script[a][i].at \in HasRun
  PROVE  LET c == script[a][i]
             r == c.run
         IN /\ c \in Running /\ r \in DOMAIN ran /\ r \in Run /\ r # 0
            /\ ran[r] \in Ran /\ ran[r].actor = a
            /\ ran[r].prompt = c.prompt /\ ran[r].session = c.session
            /\ c.prompt \in Prompt /\ c.session \in Session
            /\ Permit(c) = 0
            /\ \A b \in Actor, j \in Script :
                 script[b][j].at \in HasRun /\ (b # a \/ j # i) => script[b][j].run # r
<1> DEFINE c == script[a][i]
           r == c.run
<1>1. c \in Running /\ ran \in Seq(Ran) /\ Fits(c, a, ran)
  BY OwnScript DEF CInv, Types
<1>2. /\ r \in DOMAIN ran /\ ran[r].actor = a
      /\ ran[r].prompt = c.prompt /\ ran[r].session = c.session
  BY <1>1 DEF Fits
<1>3. r \in Nat /\ r # 0 /\ ran[r] \in Ran
  BY <1>1, <1>2
<1>4. c.prompt \in Prompt /\ c.session \in Session
  BY <1>2, <1>3 DEF Ran
<1>5. Permit(c) = 0
  BY DEF Permit, HasRun, InGraph, Asking
<1>6. \A b \in Actor, j \in Script :
        script[b][j].at \in HasRun /\ (b # a \/ j # i) => script[b][j].run # r
  BY DEF CInv, Owned
<1> QED
  BY <1>1, <1>2, <1>3, <1>4, <1>5, <1>6 DEF Run

LEMMA PromptOfPage ==
  ASSUME CInv, NEW t \in Tab
  PROVE  /\ t \in Actor /\ page[t] \in Page /\ page[t].session \in Session
         /\ Talk(page[t], ran) /\ Proposed(page[t], ran)
         /\ HoldsPage(t, page[t], ran, confirms[t])
         /\ Apart(script[t], page[t], confirms[t])
         /\ Current(script[t], page[t])
         /\ \A i \in Script : HoldsScript(script[t][i], t, ran, confirms[t])
BY DEF CInv, Types, Sound, Holds, Actor

\* A script within its run moves on in it, or to its answer, or gives up.
LEMMA RunMoves ==
  ASSUME CInv, NEW t \in Tab, NEW i \in Script, NEW d, NEW R, Same(ran, R),
         d.at \in (HasRun \ {"opened"}) \cup {"idle"},
         Live(d) => /\ Live(script[t][i]) /\ Serves(d, page[t])
                    /\ script[t][i].at # "confirming"
                    /\ d.trigger = script[t][i].trigger
                    /\ d.confirm = script[t][i].confirm
  PROVE  Moves(t, script[t][i], d, page[t], page[t], R, confirms[t])
<1> DEFINE c == script[t][i]
           n == confirms[t]
<1>1. /\ Talk(page[t], ran) /\ Proposed(page[t], ran) /\ HoldsPage(t, page[t], ran, n)
      /\ HoldsScript(c, t, ran, n)
  BY PromptOfPage
<1>2. Permit(d) = 0 /\ d.at \notin Asking \cup {"bound"}
  BY DEF Permit, HasRun, InGraph, Asking
<1>3. Gives(d) => Gives(c) /\ d.confirm = c.confirm
  BY DEF Gives
<1>4. HoldsScript(c, t, R, n) /\ HoldsPage(t, page[t], R, n)
  BY <1>1, HoldsScriptSame, HoldsPageSame
<1>5. HoldsScript(d, t, R, n)
  BY <1>2, <1>3, <1>4 DEF HoldsScript
<1>6. Talk(page[t], R) /\ Proposed(page[t], R)
  BY <1>1, TalkKept, ProposedKept DEF Same
<1> QED
  BY <1>2, <1>3, <1>4, <1>5, <1>6 DEF Moves

LEMMA WaitsOn ==
  ASSUME NEW c, NEW d, NEW p, Serves(c, p), c.at \in Waiting \ {"asked"},
         d.at \in Waiting \ {"asked"}, d.prompt = c.prompt, d.session = c.session
  PROVE  Serves(d, p)
BY DEF Serves, Waiting, InGraph, Switching, Prompted, Asking


\* A step of script i of tab t that may change its page.
LEMMA TabSound ==
  ASSUME NEW t \in Tab, NEW i \in Script,
         Sound(page, script, ran, confirms), Same(ran, ran'),
         \A b \in Actor \ {t} : page'[b] = page[b] /\ script'[b] = script[b],
         \A j \in Script \ {i} : Alike(script'[t][j], script[t][j]),
         Fits(script'[t][i], t, ran'),
         Moves(t, script[t][i], script'[t][i], page[t], page'[t], ran', confirms[t]),
         confirms' = confirms
  PROVE  Sound(page', script', ran', confirms')
<1>1. PICK a \in Actor : a = t
  BY DEF Actor
<1>2. /\ Sound(page, script, ran, confirms) /\ Same(ran, ran')
      /\ \A b \in Actor \ {a} : page'[b] = page[b] /\ script'[b] = script[b]
      /\ \A j \in Script \ {i} : Alike(script'[a][j], script[a][j])
      /\ Fits(script'[a][i], a, ran')
      /\ a \in Tab => Moves(a, script[a][i], script'[a][i], page[a], page'[a], ran',
                            confirms[a])
      /\ i \in Script
  BY <1>1
<1>3. Sound(page', script', ran', confirms)
  BY ONLY <1>2, OneStep
<1> QED
  BY <1>3

\* It is not about a run any more, or about the same one.
LEMMA TabOwned ==
  ASSUME NEW t \in Tab, NEW i \in Script,
         Owned(script, ran), ran' = ran,
         \A b \in Actor \ {t} : script'[b] = script[b],
         \A j \in Script \ {i} : Alike(script'[t][j], script[t][j]),
         script'[t][i].at \in HasRun =>
           script[t][i].at \in HasRun /\ script'[t][i].run = script[t][i].run,
         script'[t][i].at # "opened"
  PROVE  Owned(script', ran')
<1>1. PICK a \in Actor : a = t
  BY DEF Actor
<1>2. /\ Owned(script, ran) /\ i \in Script
      /\ \A b \in Actor \ {a} : script'[b] = script[b]
      /\ \A j \in Script \ {i} : Alike(script'[a][j], script[a][j])
      /\ script'[a][i].at \in HasRun =>
           script[a][i].at \in HasRun /\ script'[a][i].run = script[a][i].run
      /\ script'[a][i].at # "opened"
      /\ \A b \in Actor, j \in Script :
           script[b][j].at = "opened" /\ (b # a \/ j # i) =>
             ran[script[b][j].run].outcome = ran[script[b][j].run].outcome
  BY <1>1
<1>3. Owned(script', ran)
  BY ONLY <1>2, OwnedKept
<1> QED
  BY <1>3
-----------------------------------------------------------------------------
(* The rest of a run.  Script i of a becomes d; the pages stay.                *)

LEMMA SameSelf == Same(ran, ran)
BY DEF Same, Keeps

LEMMA ScriptStep ==
  ASSUME CInv, NEW a \in Actor, NEW i \in Script, NEW d \in Running,
         script' = [script EXCEPT ![a][i] = d],
         UNCHANGED <<page, history, typed, confirms>>,
         ran' \in Seq(Ran), Same(ran, ran'),
         \A q \in DOMAIN ran : ran'[q].outcome = ran[q].outcome,
         log' \in Seq(Record), rows' \in SUBSET Record,
         observer' \in [Actor -> AnyObserver], sessions' \in Seq(AnyRow),
         \/ /\ d.at \in HasRun \ {"opened"} /\ script[a][i].at \in HasRun
            /\ d.run = script[a][i].run
         \/ d.at = "idle",
         Fits(d, a, ran'),
         a \in Tab => (Live(d) => /\ Live(script[a][i]) /\ Serves(d, page[a])
                                  /\ d.trigger = script[a][i].trigger
                                  /\ d.confirm = script[a][i].confirm)
  PROVE  CInv'
<1>1. /\ Types /\ Sound(page, script, ran, confirms) /\ Owned(script, ran)
      /\ script \in [Actor -> [Script -> Running]]
  BY DEF CInv, Types
<1>2. /\ script' \in [Actor -> [Script -> Running]]
      /\ script'[a][i] = d
      /\ \A b \in Actor \ {a} : script'[b] = script[b]
      /\ \A j \in Script \ {i} : Alike(script'[a][j], script[a][j])
  BY <1>1, ScriptAt
<1>3. Types'
  BY <1>1, <1>2 DEF Types
<1>4. Sound(page', script', ran', confirms')
  <2>1. a \in Tab => Moves(a, script[a][i], d, page[a], page[a], ran', confirms[a])
    <3> SUFFICES ASSUME a \in Tab
                 PROVE  Moves(a, script[a][i], d, page[a], page[a], ran', confirms[a])
      OBVIOUS
    <3>1. Live(d) => script[a][i].at # "confirming"
      BY DEF Live, HasRun, InGraph
    <3>2. d.at \in (HasRun \ {"opened"}) \cup {"idle"}
      OBVIOUS
    <3> QED
      BY <3>1, <3>2, RunMoves
  <2>2. /\ a \in Actor /\ i \in Script /\ Sound(page, script, ran, confirms)
        /\ Same(ran, ran') /\ page' = page /\ confirms' = confirms
        /\ Fits(script'[a][i], a, ran')
        /\ a \in Tab => Moves(a, script[a][i], script'[a][i], page[a], page'[a], ran',
                              confirms[a])
    BY <1>1, <1>2, <2>1
  <2> QED
    BY ONLY <1>2, <2>2, OneStep
<1>5. Owned(script', ran')
  <2>1. ASSUME NEW b \in Actor, NEW j \in Script, script[b][j].at = "opened"
        PROVE  ran'[script[b][j].run].outcome = ran[script[b][j].run].outcome
    <3>1. script[b][j].run \in DOMAIN ran
      BY <2>1, OwnRun DEF HasRun, InGraph
    <3> QED
      BY <3>1
  <2>2. /\ a \in Actor /\ i \in Script /\ Owned(script, ran)
        /\ script'[a][i].at # "opened"
        /\ script'[a][i].at \in HasRun =>
             script[a][i].at \in HasRun /\ script'[a][i].run = script[a][i].run
    BY <1>1, <1>2 DEF HasRun, InGraph
  <2> QED
    BY ONLY <1>2, <2>1, <2>2, OwnedKept
<1>6. \A s \in Session : Past(history'[s], s, ran')
  BY PastKept DEF CInv, Same
<1>7. \A t \in Tab, j \in Script : Reads(script'[t][j], page'[t], history')
  <2> SUFFICES ASSUME NEW t \in Tab, NEW j \in Script
               PROVE  Reads(script'[t][j], page[t], history)
    OBVIOUS
  <2>1. Reads(script[t][j], page[t], history) /\ t \in Actor
    BY DEF CInv, Actor
  <2>2. CASE t = a /\ j = i
    BY <2>2, <1>2 DEF Reads, HasRun, InGraph
  <2>3. CASE t # a \/ j # i
    BY <2>1, <2>3, <1>2 DEF Reads, Alike
  <2> QED
    BY <2>2, <2>3
<1> QED
  BY <1>3, <1>4, <1>5, <1>6, <1>7 DEF CInv

\* A turn is added to a checkpoint.
LEMMA PastGoesOn ==
  ASSUME NEW h \in Seq(AnyTurn), NEW s, NEW R, Past(h, s, R), NEW x \in AnyTurn,
         x.run \in DOMAIN R, R[x.run].prompt = x.prompt, R[x.run].session = s
  PROVE  /\ Append(h, x) \in Seq(AnyTurn) /\ Past(Append(h, x), s, R)
         /\ Len(h) <= Len(Append(h, x))
<1> DEFINE n == Len(h)
           g == Append(h, x)
<1>1. /\ g \in Seq(AnyTurn) /\ Len(g) = n + 1
      /\ \A k \in 1..n : g[k] = h[k]
      /\ g[n + 1] = x
  BY AppendProperties
<1>2. n \in Nat /\ DOMAIN h = 1..n /\ DOMAIN g = 1..(n + 1)
  BY <1>1
<1>3. \A k \in 1..(n + 1) : k \in 1..n \/ k = n + 1
  BY <1>2
<1> HIDE DEF g, n
<1>4. ASSUME NEW k \in 1..(n + 1)
      PROVE  /\ g[k].run \in DOMAIN R
             /\ R[g[k].run].prompt = g[k].prompt /\ R[g[k].run].session = s
  <2>1. CASE k \in 1..n
    BY <2>1, <1>1, <1>2 DEF Past
  <2>2. CASE k = n + 1
    BY <2>2, <1>1
  <2> QED
    BY <1>3, <2>1, <2>2
<1>5. Past(g, s, R)
  BY <1>2, <1>4 DEF Past
<1>6. n <= n + 1
  BY <1>2
<1> QED
  BY <1>1, <1>5, <1>6 DEF g, n

\* A step of the observer of one actor.
LEMMA ObserverAt ==
  ASSUME Types, NEW a \in Actor, NEW w \in Record \cup {None}, NEW O,
         O = [observer EXCEPT ![a].run = w]
  PROVE  O \in [Actor -> AnyObserver]
<1>1. observer \in [Actor -> AnyObserver] /\ observer[a] \in AnyObserver
  BY DEF Types
<1>2. [observer[a] EXCEPT !.run = w] \in AnyObserver
  BY <1>1 DEF AnyObserver
<1> QED
  BY <1>1, <1>2

LEMMA WrittenType ==
  ASSUME NEW w \in Record \cup {None}, NEW r \in Run, NEW e \in BOOLEAN
  PROVE  Written(w, r, e) \in Record \cup {None}
BY DEF Written, Record

LEMMA InvokeKeeps ==
  ASSUME CInv, NEW a \in Actor, NEW i \in Script, Invoke(a, i)
  PROVE  CInv'
<1> DEFINE c == script[a][i]
           r == c.run
<1>1. c.at = "opened" /\ c.at \in HasRun
  BY DEF Invoke, HasRun, InGraph
<1>2. PICK o \in Outcome, e \in BOOLEAN :
        /\ script' = [script EXCEPT ![a][i] = [@ EXCEPT !.outcome = o,
                !.at = IF a = Repl /\ o # "raised" THEN "invoked" ELSE "ran"]]
        /\ ran' = [ran EXCEPT ![r] = [@ EXCEPT !.outcome = o, !.erred = e]]
        /\ history' = IF o \in {"answered", "clarified"}
             THEN [history EXCEPT ![c.session] = Append(@, [prompt |-> c.prompt, run |-> r])]
             ELSE history
        /\ observer' = [observer EXCEPT ![a].run = Written(@, r, e)]
  BY DEF Invoke
<1>3. UNCHANGED <<page, log, rows, sessions, typed, confirms>>
  BY DEF Invoke, input
<1>4. /\ c \in Running /\ r \in DOMAIN ran /\ r \in Run /\ r # 0
      /\ ran[r] \in Ran /\ ran[r].actor = a
      /\ ran[r].prompt = c.prompt /\ ran[r].session = c.session
      /\ c.prompt \in Prompt /\ c.session \in Session
      /\ \A b \in Actor, j \in Script :
           script[b][j].at \in HasRun /\ (b # a \/ j # i) => script[b][j].run # r
  BY <1>1, OwnRun
<1>5. /\ Types /\ Sound(page, script, ran, confirms) /\ Owned(script, ran)
      /\ Fits(c, a, ran)
  BY OwnScript DEF CInv
<1> DEFINE d == [c EXCEPT !.outcome = o,
                          !.at = IF a = Repl /\ o # "raised" THEN "invoked" ELSE "ran"]
           x == [ran[r] EXCEPT !.outcome = o, !.erred = e]
<1>6. /\ d \in Running /\ d.outcome = o /\ d.at \in {"invoked", "ran"}
      /\ d.stopped = c.stopped /\ d.prompt = c.prompt /\ d.session = c.session
      /\ d.run = r /\ d.trigger = c.trigger /\ d.confirm = c.confirm /\ d.gate = c.gate
  BY <1>4 DEF Running, At
<1>7. /\ x \in Ran /\ x.actor = a /\ x.session = c.session /\ x.prompt = c.prompt
      /\ x.gate = ran[r].gate /\ x.click = ran[r].click /\ x.outcome = o
  BY <1>4 DEF Ran
<1>8. script \in [Actor -> [Script -> Running]] /\ ran \in Seq(Ran)
  BY <1>5 DEF Types
<1>9. script' = [script EXCEPT ![a][i] = d] /\ ran' = [ran EXCEPT ![r] = x]
  BY <1>2
<1> HIDE DEF d, x
<1>10. /\ script' \in [Actor -> [Script -> Running]]
       /\ script'[a][i] = d
       /\ \A b \in Actor \ {a} : script'[b] = script[b]
       /\ \A j \in Script \ {i} : Alike(script'[a][j], script[a][j])
  BY <1>6, <1>8, <1>9, ScriptAt
<1>11. /\ ran' \in Seq(Ran) /\ DOMAIN ran' = DOMAIN ran
       /\ ran'[r] = x /\ \A q \in DOMAIN ran \ {r} : ran'[q] = ran[q]
  BY <1>4, <1>7, <1>8, <1>9, RanAt
<1>12. ran[r].outcome # "gated"
  BY <1>1, <1>5 DEF Owned
<1>13. Same(ran, ran')
  BY <1>4, <1>7, <1>11, <1>12 DEF Same, Keeps
<1>14. ASSUME NEW s \in Session
       PROVE  /\ history'[s] \in Seq(AnyTurn) /\ Past(history'[s], s, ran')
              /\ Len(history[s]) <= Len(history'[s])
  <2>1. history[s] \in Seq(AnyTurn) /\ Past(history[s], s, ran')
    BY <1>5, <1>13, PastKept DEF CInv, Same, Types
  <2>2. CASE history'[s] = history[s]
    BY <2>1, <2>2
  <2>3. CASE s = c.session /\ o \in {"answered", "clarified"}
    <3> DEFINE last == [prompt |-> c.prompt, run |-> r]
    <3>1. history'[s] = Append(history[s], last)
      BY <1>2, <1>5, <2>3 DEF Types
    <3>2. /\ last \in AnyTurn /\ last.run \in DOMAIN ran'
          /\ ran'[last.run].prompt = last.prompt /\ ran'[last.run].session = s
      BY <1>4, <1>7, <1>11, <2>3 DEF AnyTurn
    <3> HIDE DEF last
    <3> QED
      BY <2>1, <3>1, <3>2, PastGoesOn
  <2> QED
    BY <2>2, <2>3, <1>2, <1>5 DEF Types
<1>15. Types'
  <2>1. history' \in [Session -> Seq(AnyTurn)]
    <3>1. history' = [s \in Session |-> history'[s]]
      BY <1>2, <1>5 DEF Types
    <3> QED
      BY <3>1, <1>14
  <2>2. observer' \in [Actor -> AnyObserver]
    <3> DEFINE w == Written(observer[a].run, r, e)
    <3>1. observer \in [Actor -> AnyObserver]
      BY <1>5 DEF Types
    <3>2. w \in Record \cup {None}
      BY <1>4, <3>1, WrittenType DEF AnyObserver
    <3>3. observer' = [observer EXCEPT ![a].run = w]
      BY <1>2
    <3> HIDE DEF w
    <3> QED
      BY <1>5, <3>2, <3>3, ObserverAt
  <2> QED
    BY <1>3, <1>5, <1>10, <1>11, <2>1, <2>2 DEF Types
<1>16. Sound(page', script', ran', confirms')
  <2>1. Fits(d, a, ran')
    BY <1>1, <1>4, <1>5, <1>6, <1>7, <1>11
       DEF Fits, HasRun, InGraph, Prompted, Asking
  <2>2. a \in Tab => Moves(a, c, d, page[a], page[a], ran', confirms[a])
    <3> SUFFICES ASSUME a \in Tab
                 PROVE  Moves(a, c, d, page[a], page[a], ran', confirms[a])
      OBVIOUS
    <3>1. Live(d) => Live(c) /\ c.at # "confirming"
      BY <1>1, <1>6 DEF Live
    <3>2. Live(d) => Serves(d, page[a])
      BY <1>1, <1>6, <3>1, OwnScript, WaitsOn DEF Waiting, InGraph
    <3>3. d.at \in (HasRun \ {"opened"}) \cup {"idle"}
      BY <1>6 DEF HasRun, InGraph
    <3> QED
      BY <1>6, <1>13, <3>1, <3>2, <3>3, RunMoves
  <2>3. /\ a \in Actor /\ i \in Script /\ Sound(page, script, ran, confirms)
        /\ Same(ran, ran') /\ page' = page /\ confirms' = confirms
        /\ Fits(script'[a][i], a, ran')
        /\ a \in Tab => Moves(a, script[a][i], script'[a][i], page[a], page'[a], ran',
                              confirms[a])
    BY <1>3, <1>5, <1>10, <1>13, <2>1, <2>2
  <2> QED
    BY ONLY <1>10, <2>3, OneStep
<1>17. Owned(script', ran')
  <2>1. \A b \in Actor, j \in Script :
          script[b][j].at = "opened" /\ (b # a \/ j # i) =>
            ran'[script[b][j].run] = ran[script[b][j].run]
    <3> SUFFICES ASSUME NEW b \in Actor, NEW j \in Script,
                        script[b][j].at = "opened", b # a \/ j # i
                 PROVE  ran'[script[b][j].run] = ran[script[b][j].run]
      OBVIOUS
    <3>1. script[b][j].at \in HasRun
      BY DEF HasRun, InGraph
    <3>2. script[b][j].run \in DOMAIN ran
      BY <3>1, OwnRun
    <3> QED
      BY <3>1, <3>2, <1>4, <1>11
  <2>2. d.at # "opened" /\ c.at \in HasRun /\ d.run = c.run
    BY <1>1, <1>6
  <2> QED
    BY <2>1, <2>2, <1>5, <1>10, OwnedKept
<1>18. \A t \in Tab, j \in Script : Reads(script'[t][j], page'[t], history')
  <2> SUFFICES ASSUME NEW t \in Tab, NEW j \in Script, script'[t][j].at = "resume"
               PROVE  script'[t][j].read <= Len(history'[page[t].session])
    BY <1>3 DEF Reads
  <2>1. t # a \/ j # i
    BY <1>6, <1>10
  <2>2. script[t][j].at = "resume" /\ script'[t][j].read = script[t][j].read
    BY <2>1, <1>10 DEF Alike, Actor
  <2>3. script[t][j].read <= Len(history[page[t].session])
    BY <2>2 DEF CInv, Reads
  <2>4. /\ page[t].session \in Session /\ script[t][j].read \in Nat
        /\ history[page[t].session] \in Seq(AnyTurn)
    BY <1>5, PromptOfPage, OwnScript DEF Types, Running
  <2> QED
    BY <2>2, <2>3, <2>4, <1>14
<1> QED
  BY <1>14, <1>15, <1>16, <1>17, <1>18 DEF CInv

LEMMA PlaceExists ==
  ASSUME NEW T, sessions \in Seq(T), NEW s \in Listed
  PROVE  Place(s) \in DOMAIN sessions /\ sessions[Place(s)] \in T
<1>1. \E k \in DOMAIN sessions : sessions[k].id = s
  BY DEF Listed, ToSet
<1>2. Place(s) \in DOMAIN sessions
  BY <1>1 DEF Place
<1> QED
  BY <1>2

LEMMA RemovedType ==
  ASSUME NEW T, sessions \in Seq(T), NEW s \in Listed
  PROVE  RemoveAt(sessions, Place(s)) \in Seq(T)
<1> DEFINE k == Place(s)
           n == Len(sessions)
<1>1. k \in 1..n /\ n \in Nat
  BY PlaceExists
<1> HIDE DEF k
<1>2. SubSeq(sessions, 1, k - 1) \in Seq(T)
  BY <1>1, SubSeqProperties
<1>3. SubSeq(sessions, k + 1, n) \in Seq(T)
  BY <1>1, SubSeqProperties
<1>4. SubSeq(sessions, 1, k - 1) \o SubSeq(sessions, k + 1, n) \in Seq(T)
  BY <1>2, <1>3, ConcatProperties
<1> QED
  BY <1>4 DEF RemoveAt, k

LEMMA RegisteredType ==
  ASSUME Types, NEW s \in Session, NEW p \in Prompt, RegisterTurn(s, p)
  PROVE  sessions' \in Seq(AnyRow)
<1>1. sessions \in Seq(AnyRow)
  BY DEF Types
<1>2. ASSUME s \in Listed
      PROVE  Upserted(s, p) \in Seq(AnyRow)
  <2> DEFINE row == [sessions[Place(s)] EXCEPT !.turns = @ + 1]
  <2>1. row \in AnyRow
    <3>1. sessions[Place(s)] \in AnyRow
      BY <1>1, <1>2, PlaceExists
    <3> QED
      BY <3>1 DEF AnyRow
  <2>2. RemoveAt(sessions, Place(s)) \in Seq(AnyRow)
    BY <1>1, <1>2, RemovedType
  <2> HIDE DEF row
  <2>3. <<row>> \o RemoveAt(sessions, Place(s)) \in Seq(AnyRow)
    BY <2>1, <2>2, ConcatProperties
  <2> QED
    BY <1>2, <2>3 DEF Upserted, row
<1>3. ASSUME s \notin Listed
      PROVE  Upserted(s, p) \in Seq(AnyRow)
  <2> DEFINE row == [id |-> s, title |-> p, turns |-> 1]
  <2>1. row \in AnyRow
    BY DEF AnyRow
  <2> HIDE DEF row
  <2>2. <<row>> \o sessions \in Seq(AnyRow)
    BY <1>1, <2>1, ConcatProperties
  <2> QED
    BY <1>3, <2>2 DEF Upserted, row
<1> QED
  BY <1>1, <1>2, <1>3 DEF RegisterTurn

\* An idle script, whatever it was before.
LEMMA IdleEnds ==
  ASSUME NEW b \in BOOLEAN, NEW a, NEW R, NEW d,
         d = [Idle EXCEPT !.stopped = b] \/ d = Idle
  PROVE  /\ d \in Running /\ d.at = "idle" /\ Fits(d, a, R) /\ ~Live(d)
<1>1. d \in Running
  BY IdleType
<1>2. d.at = "idle" /\ d.gate = 0 /\ d.click = 0
  BY DEF Idle
<1> QED
  BY <1>1, <1>2, IdleFits

Answered(c, o) == [c EXCEPT !.at = "answered", !.outcome = o, !.record = None]

LEMMA AnsweredType ==
  ASSUME NEW c \in Running, NEW o \in Outcome \cup {None}, NEW d, d = Answered(c, o)
  PROVE  /\ d \in Running /\ d.at = "answered" /\ d.stopped = c.stopped
         /\ d.prompt = c.prompt /\ d.session = c.session /\ d.run = c.run
         /\ d.trigger = c.trigger /\ d.confirm = c.confirm
         /\ d.outcome = o
BY DEF Answered, Running, At

\* The end of a run.
LEMMA OverKeeps ==
  ASSUME CInv, NEW a \in Actor, NEW i \in Script, NEW o \in Outcome,
         script[a][i].at \in {"ran", "closing"},
         o = "gated" => script[a][i].outcome = "gated",
         Over(a, i, o), UNCHANGED <<page, log, rows, sessions, history, typed, confirms>>,
         observer' \in [Actor -> AnyObserver]
  PROVE  CInv'
<1> DEFINE c == script[a][i]
           r == c.run
           x == [ran[r] EXCEPT !.closed = TRUE, !.alone = c.alone]
<1>1. c.at \in HasRun /\ c.at \in Waiting
  BY DEF HasRun, InGraph, Waiting
<1>2. /\ c \in Running /\ Fits(c, a, ran)
      /\ a \in Tab => (Live(c) => Serves(c, page[a]))
  BY OwnScript
<1>3. /\ r \in DOMAIN ran /\ ran[r] \in Ran /\ ran[r].actor = a
      /\ ran[r].prompt = c.prompt /\ ran[r].session = c.session
      /\ c.prompt \in Prompt /\ c.session \in Session
  BY <1>1, OwnRun
<1>4. Types
  BY DEF CInv
<1>5. /\ x \in Ran /\ x.actor = ran[r].actor /\ x.session = ran[r].session
      /\ x.prompt = ran[r].prompt /\ x.gate = ran[r].gate /\ x.click = ran[r].click
      /\ x.outcome = ran[r].outcome
  BY <1>2, <1>3 DEF Ran, Running
<1>6. ran' = [ran EXCEPT ![r] = x]
  BY DEF Over
<1> HIDE DEF x
<1>7. /\ ran' \in Seq(Ran) /\ DOMAIN ran' = DOMAIN ran /\ ran'[r] = x
      /\ Same(ran, ran') /\ \A q \in DOMAIN ran : ran'[q].outcome = ran[q].outcome
  <2>1. /\ ran' \in Seq(Ran) /\ DOMAIN ran' = DOMAIN ran /\ ran'[r] = x
        /\ \A q \in DOMAIN ran \ {r} : ran'[q] = ran[q]
    BY <1>3, <1>4, <1>5, <1>6, RanAt DEF Types
  <2> QED
    BY <1>5, <2>1 DEF Same, Keeps
<1>8. /\ CInv /\ a \in Actor /\ i \in Script
      /\ UNCHANGED <<page, history, typed, confirms>>
      /\ log' \in Seq(Record) /\ rows' \in SUBSET Record
      /\ observer' \in [Actor -> AnyObserver] /\ sessions' \in Seq(AnyRow)
  BY <1>4 DEF Types
<1>9. PICK d : /\ script' = [script EXCEPT ![a][i] = d]
               /\ IF a = Repl \/ c.stopped THEN d = [Idle EXCEPT !.stopped = c.stopped]
                  ELSE d = [c EXCEPT !.at = "answered", !.outcome = o, !.record = None]
  BY DEF Over
<1>10. CASE a = Repl \/ c.stopped
  <2>1. d = [Idle EXCEPT !.stopped = c.stopped] /\ c.stopped \in BOOLEAN
    BY <1>2, <1>9, <1>10 DEF Running
  <2>2. d \in Running /\ d.at = "idle" /\ Fits(d, a, ran') /\ ~Live(d)
    BY <2>1, IdleEnds
  <2> QED
    BY ONLY <1>7, <1>8, <1>9, <2>2, ScriptStep
<1>11. CASE ~(a = Repl \/ c.stopped)
  <2>1. /\ d \in Running /\ d.at = "answered" /\ d.stopped = c.stopped
        /\ d.prompt = c.prompt /\ d.session = c.session /\ d.run = r /\ d.outcome = o
        /\ d.trigger = c.trigger /\ d.confirm = c.confirm
    <3>1. d = Answered(c, o)
      BY <1>9, <1>11 DEF Answered
    <3>2. c \in Running /\ o \in Outcome \cup {None}
      BY <1>2
    <3> QED
      BY ONLY <3>1, <3>2, AnsweredType
  <2>2. Fits(d, a, ran')
    BY <1>1, <1>2, <1>3, <1>5, <1>7, <1>11, <2>1
       DEF Fits, HasRun, InGraph, Prompted, Asking
  <2>3. Live(c)
    BY <1>1, <1>11 DEF Live, HasRun, InGraph
  <2>4. a \in Tab => Serves(d, page[a])
    BY <1>1, <1>2, <2>1, <2>3, WaitsOn DEF Waiting
  <2>5. d.at \in HasRun \ {"opened"} /\ script[a][i].at \in HasRun
    BY <1>1, <2>1 DEF HasRun
  <2> QED
    BY ONLY <1>7, <1>8, <1>9, <2>1, <2>2, <2>3, <2>4, <2>5, ScriptStep
<1> QED
  BY <1>10, <1>11

\* A script that goes on in its run, with the record it stores.
Moved(c, at, record) == [c EXCEPT !.at = at, !.record = record]

LEMMA MovedType ==
  ASSUME NEW c \in Running, NEW at \in {"ran", "storing", "closing"},
         NEW record \in Record \cup {None}, NEW d, d = Moved(c, at, record)
  PROVE  /\ d \in Running /\ d.at = at /\ d.stopped = c.stopped
         /\ d.prompt = c.prompt /\ d.session = c.session /\ d.run = c.run
         /\ d.outcome = c.outcome /\ d.record = record /\ d.gate = c.gate
         /\ d.trigger = c.trigger /\ d.confirm = c.confirm
BY DEF Moved, Running, At

LEMMA MoveKeeps ==
  ASSUME CInv, NEW a \in Actor, NEW i \in Script,
         script[a][i].at \in {"invoked", "ran", "storing"},
         NEW at \in {"ran", "storing", "closing"},
         NEW record \in Record \cup {None}, at = "storing" => record # None,
         script' = [script EXCEPT ![a][i] = Moved(script[a][i], at, record)],
         UNCHANGED <<page, history, typed, confirms>>,
         ran' \in Seq(Ran), Same(ran, ran'),
         \A q \in DOMAIN ran : ran'[q].outcome = ran[q].outcome,
         log' \in Seq(Record), rows' \in SUBSET Record,
         observer' \in [Actor -> AnyObserver], sessions' \in Seq(AnyRow)
  PROVE  CInv'
<1> DEFINE c == script[a][i]
           d == Moved(c, at, record)
<1>1. /\ c \in Running /\ Fits(c, a, ran)
      /\ a \in Tab => (Live(c) => Serves(c, page[a]))
  BY OwnScript
<1>2. /\ d \in Running /\ d.at = at /\ d.stopped = c.stopped
      /\ d.prompt = c.prompt /\ d.session = c.session /\ d.run = c.run
      /\ d.outcome = c.outcome /\ d.gate = c.gate /\ d.record = record
      /\ d.trigger = c.trigger /\ d.confirm = c.confirm
  <2>1. d = Moved(c, at, record)
    OBVIOUS
  <2>2. at \in {"ran", "storing", "closing"} /\ record \in Record \cup {None}
    OBVIOUS
  <2> HIDE DEF d, c
  <2> QED
    BY ONLY <1>1, <2>1, <2>2, MovedType
<1>3. script' = [script EXCEPT ![a][i] = d]
  OBVIOUS
<1> HIDE DEF d
<1>4. Fits(d, a, ran')
  <2>1. Fits(c, a, ran')
    BY <1>1, FitsKept DEF Same
  <2> QED
    BY <1>2, <2>1 DEF Fits, HasRun, InGraph, Prompted, Asking
<1>5. Live(d) => Live(c)
  BY <1>2 DEF Live
<1>6. a \in Tab => (Live(d) => Serves(d, page[a]))
  BY <1>1, <1>2, <1>5, WaitsOn DEF Waiting, InGraph
<1>7. d.at \in HasRun \ {"opened"} /\ script[a][i].at \in HasRun
  BY <1>2 DEF HasRun, InGraph
<1>8. /\ CInv /\ a \in Actor /\ i \in Script
      /\ UNCHANGED <<page, history, typed, confirms>>
      /\ ran' \in Seq(Ran) /\ Same(ran, ran')
      /\ \A q \in DOMAIN ran : ran'[q].outcome = ran[q].outcome
      /\ log' \in Seq(Record) /\ rows' \in SUBSET Record
      /\ observer' \in [Actor -> AnyObserver] /\ sessions' \in Seq(AnyRow)
  OBVIOUS
<1> QED
  BY ONLY <1>2, <1>3, <1>4, <1>5, <1>6, <1>7, <1>8, ScriptStep

Unlogged(R, r) == [R EXCEPT ![r].unlogged = TRUE]

LEMMA UnloggedSame ==
  ASSUME NEW R \in Seq(Ran), NEW r \in Run
  PROVE  /\ Unlogged(R, r) \in Seq(Ran) /\ Same(R, Unlogged(R, r))
         /\ \A q \in DOMAIN R :
              /\ Unlogged(R, r)[q].outcome = R[q].outcome
              /\ q # r => Unlogged(R, r)[q] = R[q]
              /\ q = r => Unlogged(R, r)[q] = [R[q] EXCEPT !.unlogged = TRUE]
<1> DEFINE Q == Unlogged(R, r)
           x == [R[r] EXCEPT !.unlogged = TRUE]
<1>1. Q = [R EXCEPT ![r] = x]
  BY DEF Unlogged
<1>2. CASE r \in DOMAIN R
  <2>1. R[r] \in Ran
    BY <1>2
  <2>2. /\ x \in Ran /\ x.actor = R[r].actor /\ x.session = R[r].session
        /\ x.prompt = R[r].prompt /\ x.gate = R[r].gate /\ x.click = R[r].click
        /\ x.outcome = R[r].outcome
    BY <2>1 DEF Ran
  <2> HIDE DEF x, Q
  <2>3. /\ Q \in Seq(Ran) /\ DOMAIN Q = DOMAIN R
        /\ Q[r] = x /\ \A q \in DOMAIN R \ {r} : Q[q] = R[q]
    BY <1>1, <1>2, <2>2, RanAt
  <2> QED
    BY <2>2, <2>3 DEF Same, Keeps, Q, x
<1>3. CASE r \notin DOMAIN R
  <2>1. Q = R
    BY <1>1, <1>3
  <2> QED
    BY <2>1, <1>3 DEF Same, Keeps
<1> QED
  BY <1>2, <1>3

LEMMA EndRunKeeps ==
  ASSUME CInv, NEW a \in Actor, NEW i \in Script, EndRun(a, i)
  PROVE  CInv'
<1> DEFINE c == script[a][i]
           w == observer[a].run
           closing == [w EXCEPT !.success = @ /\ Good(a, c.outcome)]
<1>1. c.at = "ran" /\ UNCHANGED <<page, rows, sessions, history, typed, confirms>>
  BY DEF EndRun, input
<1>2. Types /\ c \in Running /\ observer[a] \in AnyObserver /\ ran \in Seq(Ran)
  BY OwnScript DEF CInv, Types
<1>3. CASE w = None
  <2>1. Over(a, i, c.outcome) /\ UNCHANGED <<observer, log>>
    BY <1>3 DEF EndRun
  <2>2. c.outcome \in Outcome
    BY <1>1, OwnScript DEF Fits, HasRun, InGraph
  <2>3. observer' \in [Actor -> AnyObserver]
    BY <1>2, <2>1 DEF Types
  <2> QED
    BY <1>1, <2>1, <2>2, <2>3, OverKeeps
<1>4. CASE w # None
  <2>1. /\ observer' = [observer EXCEPT ![a].run = closing]
        /\ script' = [script EXCEPT ![a][i] = Moved(c, "storing", closing)]
        /\ \/ log' = Append(log, closing) /\ UNCHANGED ran
           \/ UNCHANGED log /\ ran' = Unlogged(ran, closing.run)
    BY <1>4 DEF EndRun, Moved, Unlogged
  <2>2. w \in Record
    BY <1>2, <1>4 DEF AnyObserver
  <2>3. closing \in Record /\ closing # None
    BY <2>2, RecordAssumption DEF Record, Good
  <2> HIDE DEF closing
  <2>4. observer' \in [Actor -> AnyObserver]
    BY <1>2, <2>1, <2>3, ObserverAt
  <2>5. log' \in Seq(Record)
    <3>1. log \in Seq(Record)
      BY <1>2 DEF Types
    <3>2. CASE log' = Append(log, closing)
      BY <2>3, <3>1, <3>2, AppendProperties
    <3> QED
      BY <2>1, <3>1, <3>2
  <2>6. /\ ran' \in Seq(Ran) /\ Same(ran, ran')
        /\ \A q \in DOMAIN ran : ran'[q].outcome = ran[q].outcome
    <3>1. CASE UNCHANGED ran
      BY <3>1, <1>2, SameSelf
    <3>2. CASE ran' = Unlogged(ran, closing.run)
      <4> DEFINE r == closing.run
                 Q == Unlogged(ran, r)
      <4> HIDE DEF r
      <4>1. ran \in Seq(Ran) /\ r \in Run
        BY <1>2, <2>3 DEF Record, r
      <4>2. /\ Q \in Seq(Ran) /\ Same(ran, Q)
            /\ \A q \in DOMAIN ran : Q[q].outcome = ran[q].outcome
        BY ONLY <4>1, UnloggedSame
      <4>3. ran' = Q
        BY <3>2 DEF r
      <4> HIDE DEF Q
      <4> QED
        BY <4>2, <4>3
    <3> QED
      BY <2>1, <3>1, <3>2
  <2>7. rows' \in SUBSET Record /\ sessions' \in Seq(AnyRow)
    BY <1>1, <1>2 DEF Types
  <2> QED
    BY <1>1, <2>1, <2>3, <2>4, <2>5, <2>6, <2>7, MoveKeeps
<1> QED
  BY <1>3, <1>4

LEMMA WriteRowKeeps ==
  ASSUME CInv, NEW a \in Actor, NEW i \in Script, WriteRow(a, i)
  PROVE  CInv'
<1> DEFINE c == script[a][i]
           record == c.record
<1>1. /\ c.at = "storing"
      /\ UNCHANGED <<page, observer, log, ran, sessions, history, typed, confirms>>
      /\ rows' \subseteq rows \cup {record}
      /\ script' = [script EXCEPT ![a][i].at = "closing"]
  BY DEF WriteRow, Go, input
<1>2. Types /\ c \in Running /\ record \in Record
  BY <1>1, OwnScript DEF CInv, Running, Fits
<1>3. [c EXCEPT !.at = "closing"] = Moved(c, "closing", record)
  BY <1>2 DEF Moved, Running
<1>4. script' = [script EXCEPT ![a][i] = Moved(c, "closing", record)]
  BY <1>1, <1>3
<1>5. /\ rows' \in SUBSET Record /\ log' \in Seq(Record)
      /\ observer' \in [Actor -> AnyObserver] /\ sessions' \in Seq(AnyRow)
      /\ ran' \in Seq(Ran) /\ Same(ran, ran')
      /\ \A q \in DOMAIN ran : ran'[q].outcome = ran[q].outcome
  BY <1>1, <1>2, SameSelf DEF Types
<1>6. /\ UNCHANGED <<page, history, typed, confirms>>
      /\ script[a][i].at \in {"invoked", "ran", "storing"}
      /\ record \in Record \cup {None}
  BY <1>1, <1>2
<1> HIDE DEF record
<1> QED
  BY ONLY CInv, a \in Actor, i \in Script, <1>4, <1>5, <1>6, MoveKeeps

\* A script that is given up.
LEMMA GiveUp ==
  ASSUME CInv, NEW a \in Actor, NEW i \in Script,
         script' = [script EXCEPT ![a][i] = Idle],
         UNCHANGED <<page, log, rows, sessions, history, typed, confirms>>,
         ran' \in Seq(Ran), Same(ran, ran'),
         \A q \in DOMAIN ran : ran'[q].outcome = ran[q].outcome,
         observer' \in [Actor -> AnyObserver]
  PROVE  CInv'
<1>1. Idle \in Running /\ Idle.at = "idle" /\ Fits(Idle, a, ran') /\ ~Live(Idle)
  BY IdleEnds
<1>2. /\ CInv /\ a \in Actor /\ i \in Script
      /\ script' = [script EXCEPT ![a][i] = Idle]
      /\ UNCHANGED <<page, history, typed, confirms>>
      /\ ran' \in Seq(Ran) /\ Same(ran, ran')
      /\ \A q \in DOMAIN ran : ran'[q].outcome = ran[q].outcome
      /\ observer' \in [Actor -> AnyObserver]
      /\ log' \in Seq(Record) /\ rows' \in SUBSET Record /\ sessions' \in Seq(AnyRow)
  BY DEF CInv, Types
<1> QED
  BY ONLY <1>1, <1>2, ScriptStep

LEMMA ClearRunKeeps ==
  ASSUME CInv, NEW a \in Actor, NEW i \in Script, ClearRun(a, i)
  PROVE  CInv'
<1> DEFINE c == script[a][i]
           r == c.run
<1>1. /\ c.at = "closing" /\ c.at \in HasRun
      /\ UNCHANGED <<page, log, rows, sessions, history, typed, confirms>>
      /\ observer' = [observer EXCEPT ![a].run = None]
  BY DEF ClearRun, HasRun, InGraph, input
<1>2. Types
  BY DEF CInv
<1>3. observer' \in [Actor -> AnyObserver]
  BY <1>1, <1>2, ObserverAt
<1>4. CASE Over(a, i, c.outcome)
  <2>1. c.outcome \in Outcome
    BY <1>1, OwnScript DEF Fits, HasRun, InGraph
  <2> QED
    BY <1>1, <1>3, <1>4, <2>1, OverKeeps
<1>5. CASE Over(a, i, "raised")
  <2>1. "raised" \in Outcome
    BY DEF Outcome
  <2> QED
    BY <1>1, <1>3, <1>5, <2>1, OverKeeps
<1>6. CASE /\ script' = [script EXCEPT ![a][i] = Idle]
           /\ ran' = [ran EXCEPT ![c.run] = [@ EXCEPT !.closed = TRUE, !.alone = FALSE]]
  <2> DEFINE x == [ran[r] EXCEPT !.closed = TRUE, !.alone = FALSE]
  <2>1. r \in DOMAIN ran /\ ran[r] \in Ran
    BY <1>1, OwnRun
  <2>2. /\ x \in Ran /\ x.actor = ran[r].actor /\ x.session = ran[r].session
        /\ x.prompt = ran[r].prompt /\ x.gate = ran[r].gate /\ x.click = ran[r].click
        /\ x.outcome = ran[r].outcome
    BY <2>1 DEF Ran
  <2>3. ran' = [ran EXCEPT ![r] = x]
    BY <1>6
  <2> HIDE DEF x
  <2>4. /\ ran' \in Seq(Ran)
        /\ Same(ran, ran') /\ \A q \in DOMAIN ran : ran'[q].outcome = ran[q].outcome
    <3>1. /\ ran' \in Seq(Ran) /\ DOMAIN ran' = DOMAIN ran
          /\ ran'[r] = x /\ \A q \in DOMAIN ran \ {r} : ran'[q] = ran[q]
      BY <1>2, <2>1, <2>2, <2>3, RanAt DEF Types
    <3> QED
      BY <2>2, <3>1 DEF Same, Keeps
  <2> QED
    BY <1>1, <1>3, <1>6, <2>4, GiveUp
<1> QED
  BY <1>4, <1>5, <1>6 DEF ClearRun

LEMMA ReplRegisterKeeps ==
  ASSUME CInv, NEW i \in Script, ReplRegister(i)
  PROVE  CInv'
<1> DEFINE c == script[Repl][i]
<1>1. /\ c.at = "invoked" /\ c.at \in HasRun /\ Repl \in Actor
      /\ RegisterTurn(c.session, c.prompt)
      /\ script' = [script EXCEPT ![Repl][i].at = "ran"]
      /\ UNCHANGED <<page, observer, log, rows, ran, history, typed, confirms>>
  BY DEF ReplRegister, Go, runLog, HasRun, InGraph, Actor, input
<1>2. Types /\ c \in Running /\ c.prompt \in Prompt /\ c.session \in Session
  BY <1>1, OwnRun DEF CInv
<1>3. sessions' \in Seq(AnyRow)
  BY <1>1, <1>2, RegisteredType
<1>4. [c EXCEPT !.at = "ran"] = Moved(c, "ran", c.record)
  BY <1>2 DEF Moved, Running
<1>5. script' = [script EXCEPT ![Repl][i] = Moved(c, "ran", c.record)]
  BY <1>1, <1>4
<1>6. /\ rows' \in SUBSET Record /\ log' \in Seq(Record)
      /\ observer' \in [Actor -> AnyObserver] /\ ran' \in Seq(Ran) /\ Same(ran, ran')
      /\ c.record \in Record \cup {None}
  BY <1>1, <1>2, SameSelf DEF Types, Running
<1> QED
  BY <1>1, <1>3, <1>5, <1>6, MoveKeeps

LEMMA ReplInterruptKeeps ==
  ASSUME CInv, NEW i \in Script, ReplInterrupt(i)
  PROVE  CInv'
<1>1. /\ script' = [script EXCEPT ![Repl][i] = Idle] /\ Repl \in Actor
      /\ UNCHANGED <<page, log, rows, ran, sessions, history, typed, confirms>>
      /\ observer' = [observer EXCEPT ![Repl].run = None]
  BY DEF ReplInterrupt, Actor, input
<1>2. observer' \in [Actor -> AnyObserver] /\ ran' \in Seq(Ran)
  BY <1>1, ObserverAt DEF CInv, Types
<1>3. Same(ran, ran')
  BY <1>1, SameSelf
<1> QED
  BY <1>1, <1>2, <1>3, GiveUp

LEMMA DeleteKeeps ==
  ASSUME CInv, NEW s \in Session, Delete(s)
  PROVE  CInv'
<1>1. /\ sessions' = RemoveAt(sessions, Place(s)) /\ s \in Listed
      /\ rows' \subseteq rows
      /\ UNCHANGED <<page, script, observer, log, history, ran, typed, confirms>>
  BY DEF Delete, input
<1>2. Types
  BY DEF CInv
<1>3. sessions' \in Seq(AnyRow)
  BY <1>1, <1>2, RemovedType DEF Types
<1>4. Types'
  BY <1>1, <1>2, <1>3 DEF Types
<1> QED
  BY <1>1, <1>4 DEF CInv

-----------------------------------------------------------------------------
(* A run begins.                                                              *)

Bound(c, s, alone) == [c EXCEPT !.at = "bound", !.session = s, !.alone = alone]
Joined(c, alone) == [c EXCEPT !.alone = alone]

LEMMA BoundType ==
  ASSUME NEW c \in Running, NEW s \in Session, NEW x \in BOOLEAN, NEW d, d = Bound(c, s, x)
  PROVE  /\ d \in Running /\ d.at = "bound" /\ d.stopped = c.stopped
         /\ d.prompt = c.prompt /\ d.session = s /\ d.gate = c.gate /\ d.click = c.click
         /\ d.trigger = c.trigger /\ d.confirm = c.confirm
BY DEF Bound, Running, At

LEMMA JoinedType ==
  ASSUME NEW c \in Running, NEW x \in BOOLEAN, NEW d, d = Joined(c, x)
  PROVE  d \in Running /\ Alike(d, c)
BY DEF Joined, Running, Alike

LEMMA RegisterKeeps ==
  ASSUME CInv, NEW t \in Tab, NEW i \in Script, Register(t, i)
  PROVE  CInv'
<1> DEFINE c == script[t][i]
           s == page[t].session
           n == confirms[t]
           others == Recording(t)
           d == Bound(c, s, others = {})
<1>1. /\ c.at = "asked" /\ RegisterTurn(s, c.prompt)
      /\ script' = [script EXCEPT ![t] = [j \in Script |->
           IF j = i THEN Bound(script[t][i], s, others = {})
           ELSE Joined(script[t][j], script[t][j].alone /\ j \notin others)]]
      /\ observer' = [observer EXCEPT ![t] =
           [session |-> s, run |-> Rebound(observer[t].run, s)]]
      /\ UNCHANGED <<page, log, rows, ran, history, typed, confirms>>
  BY DEF Register, Bound, Joined, input
<1>2. /\ Types /\ Sound(page, script, ran, confirms) /\ Owned(script, ran)
      /\ c \in Running /\ Fits(c, t, ran)
      /\ Live(c) => Serves(c, page[t])
      /\ t \in Actor /\ s \in Session
  BY OwnScript, PromptOfPage DEF CInv, Actor
<1>3. c.prompt \in Prompt /\ ~c.stopped
  BY <1>1, <1>2 DEF Fits, Prompted, Asking, InGraph
<1>4. Live(c) /\ Serves(c, page[t])
  BY <1>1, <1>2, <1>3 DEF Live
<1>5. script \in [Actor -> [Script -> Running]] /\ observer \in [Actor -> AnyObserver]
  BY <1>2 DEF Types
<1>6. /\ d \in Running /\ d.at = "bound" /\ d.stopped = c.stopped
      /\ d.prompt = c.prompt /\ d.session = s /\ d.gate = c.gate /\ d.click = c.click
      /\ d.trigger = c.trigger /\ d.confirm = c.confirm
  <2> DEFINE x == others = {}
  <2>1. x \in BOOLEAN /\ d = Bound(c, s, x)
    OBVIOUS
  <2> HIDE DEF x, d
  <2> QED
    BY <1>2, <2>1, BoundType
<1>7. script'[t][i] = d /\ \A b \in Actor \ {t} : script'[b] = script[b]
  BY <1>1, <1>2, <1>5
<1> HIDE DEF d
<1>8. ASSUME NEW j \in Script \ {i}
      PROVE  script'[t][j] \in Running /\ Alike(script'[t][j], script[t][j])
  <2> DEFINE x == script[t][j].alone /\ j \notin others
  <2>1. script'[t][j] = Joined(script[t][j], x)
    BY <1>1, <1>2, <1>5
  <2>2. script[t][j] \in Running /\ x \in BOOLEAN
    BY <1>2, <1>5 DEF Running
  <2> HIDE DEF x
  <2> QED
    BY <2>1, <2>2, JoinedType
<1>9. script' \in [Actor -> [Script -> Running]]
  <2>1. /\ script' = [b \in Actor |-> script'[b]]
        /\ script'[t] = [j \in Script |-> script'[t][j]]
    BY <1>1, <1>2, <1>5
  <2>2. script'[t] \in [Script -> Running]
    BY <2>1, <1>6, <1>7, <1>8
  <2> QED
    BY <2>1, <2>2, <1>5, <1>7
<1>10. observer' \in [Actor -> AnyObserver]
  <2> DEFINE w == observer[t].run
             v == Rebound(w, s)
  <2>1. w \in Record \cup {None}
    BY <1>2, <1>5 DEF AnyObserver
  <2>2. v \in Record \cup {None}
    BY <1>2, <2>1 DEF Record, Rebound
  <2>3. observer' = [observer EXCEPT ![t] = [session |-> s, run |-> v]]
    BY <1>1
  <2> HIDE DEF v
  <2>4. [session |-> s, run |-> v] \in AnyObserver
    BY <1>2, <2>2 DEF AnyObserver
  <2> QED
    BY <1>5, <2>3, <2>4
<1>11. Types'
  <2>1. sessions' \in Seq(AnyRow)
    BY <1>1, <1>2, <1>3, RegisteredType
  <2> QED
    BY <1>1, <1>2, <1>9, <1>10, <2>1 DEF Types
<1>12. \A j \in Script \ {i} : Alike(script'[t][j], script[t][j])
  BY <1>8
<1>13. Sound(page', script', ran', confirms')
  <2>1. /\ HoldsScript(c, t, ran, n) /\ HoldsPage(t, page[t], ran, n)
        /\ Talk(page[t], ran) /\ Proposed(page[t], ran) /\ Apart(script[t], page[t], n)
    BY PromptOfPage
  <2>2. Permit(d) = Permit(c) /\ Gives(d) = Gives(c)
    BY <1>1, <1>6 DEF Permit, Gives, Live, Asking
  <2>3. HoldsScript(d, t, ran, n)
    BY <1>1, <1>6, <2>1, <2>2 DEF HoldsScript, Asking
  <2>4. Fits(d, t, ran)
    BY <1>1, <1>2, <1>3, <1>6, NameAssumption
       DEF Fits, Prompted, Asking, InGraph, HasRun
  <2>5. Serves(d, page[t])
    BY <1>1, <1>4, <1>6 DEF Serves, Waiting, InGraph, Prompted, Asking, Switching
  <2>6. Permit(d) # 0 => Permit(d) # OnPage(page[t])
    BY <2>1, <2>2 DEF Apart
  <2>7. Moves(t, c, d, page[t], page[t], ran, n)
    BY <1>4, <2>1, <2>2, <2>3, <2>5, <2>6 DEF Moves
  <2>8. /\ Sound(page, script, ran, confirms) /\ Same(ran, ran')
        /\ Fits(script'[t][i], t, ran')
        /\ \A b \in Actor \ {t} : page'[b] = page[b] /\ script'[b] = script[b]
        /\ Moves(t, script[t][i], script'[t][i], page[t], page'[t], ran', confirms[t])
        /\ confirms' = confirms
    BY <1>1, <1>2, <1>7, <2>4, <2>7, SameSelf
  <2> QED
    BY <1>12, <2>8, TabSound
<1>14. Owned(script', ran')
  <2>1. /\ script'[t][i].at \notin HasRun /\ script'[t][i].at # "opened"
    BY <1>6, <1>7 DEF HasRun, InGraph
  <2> QED
    BY <1>1, <1>2, <1>7, <1>12, <2>1, TabOwned
<1>15. \A u \in Tab, j \in Script : Reads(script'[u][j], page'[u], history')
  <2> SUFFICES ASSUME NEW u \in Tab, NEW j \in Script
               PROVE  Reads(script'[u][j], page[u], history)
    BY <1>1
  <2>1. Reads(script[u][j], page[u], history) /\ u \in Actor
    BY DEF CInv, Actor
  <2>2. CASE u = t /\ j = i
    BY <2>2, <1>6, <1>7 DEF Reads
  <2>3. CASE u # t \/ j # i
    BY <2>1, <2>3, <1>7, <1>12 DEF Reads, Alike
  <2> QED
    BY <2>2, <2>3
<1>16. \A x \in Session : Past(history'[x], x, ran')
  BY <1>1 DEF CInv
<1> QED
  BY <1>11, <1>13, <1>14, <1>15, <1>16 DEF CInv

OpenedScript(c, s, p, r) == [c EXCEPT !.at = "opened", !.session = s, !.prompt = p, !.run = r]
OpenedRun(a, s, p, g, k) ==
  [actor |-> a, session |-> s, prompt |-> p, gate |-> g, click |-> k,
   outcome |-> None, erred |-> FALSE, alone |-> TRUE, closed |-> FALSE,
   unlogged |-> FALSE]

LEMMA OpenedType ==
  ASSUME NEW c \in Running, NEW s \in Session, NEW p \in Prompt, NEW r \in Run, NEW d,
         d = OpenedScript(c, s, p, r)
  PROVE  /\ d \in Running /\ d.at = "opened" /\ d.stopped = c.stopped
         /\ d.prompt = p /\ d.session = s /\ d.run = r /\ d.gate = c.gate
         /\ d.trigger = c.trigger /\ d.confirm = c.confirm
BY DEF OpenedScript, Running, At, Run

\* Script i of a begins a run about p in session s.
LEMMA OpenedKeeps ==
  ASSUME CInv, NEW a \in Actor, NEW i \in Script, NEW s \in Session, NEW p \in Prompt,
         \/ /\ script[a][i].at = "bound"
            /\ s = script[a][i].session /\ p = script[a][i].prompt
         \/ script[a][i].at = "idle" /\ a = Repl,
         Opened(a, i, s, p),
         page' \in [Actor -> Page], \A t \in Tab : page'[t] = page[t],
         typed' \in 0..MaxPrompts, UNCHANGED confirms
  PROVE  CInv'
<1> DEFINE c == script[a][i]
           n == Len(ran)
           r == n + 1
           g == c.gate
           k == c.click
           d == OpenedScript(c, s, p, r)
           x == OpenedRun(a, s, p, g, k)
<1>1. /\ script' = [script EXCEPT ![a][i] = d]
      /\ ran' = Append(ran, x)
      /\ observer' = [observer EXCEPT ![a].run =
           [run |-> r, session |-> observer[a].session, prompt |-> p, by |-> {},
            success |-> TRUE]]
      /\ UNCHANGED <<log, rows, sessions, history, confirms>>
  BY DEF Opened, OpenedScript, OpenedRun
<1>2. /\ Types /\ Sound(page, script, ran, confirms) /\ Owned(script, ran)
      /\ c \in Running /\ Fits(c, a, ran) /\ ran \in Seq(Ran)
      /\ script \in [Actor -> [Script -> Running]]
  BY OwnScript DEF CInv, Types
<1>3. /\ n \in Nat /\ r \in Nat /\ DOMAIN ran = 1..n /\ r \in Run
      /\ g \in Nat /\ k \in Nat
  BY <1>2 DEF Running, Run
<1>4. /\ d \in Running /\ d.at = "opened" /\ d.stopped = c.stopped
      /\ d.prompt = p /\ d.session = s /\ d.run = r /\ d.gate = g
      /\ d.trigger = c.trigger /\ d.confirm = c.confirm
  BY <1>2, <1>3, OpenedType
<1>5. /\ x \in Ran /\ x.actor = a /\ x.session = s /\ x.prompt = p /\ x.gate = g
      /\ x.click = k /\ x.outcome = None
  BY <1>3 DEF OpenedRun, Ran
<1> HIDE DEF d, x
<1>6. /\ script' \in [Actor -> [Script -> Running]]
      /\ script'[a][i] = d
      /\ \A b \in Actor \ {a} : script'[b] = script[b]
      /\ \A j \in Script \ {i} : script'[a][j] = script[a][j]
  BY <1>1, <1>2, <1>4, ScriptAt
<1>7. /\ ran' \in Seq(Ran) /\ Len(ran') = r
      /\ \A q \in 1..n : ran'[q] = ran[q]
      /\ ran'[r] = x
  BY <1>1, <1>2, <1>5, AppendProperties
<1>8. DOMAIN ran' = 1..r /\ \A q \in 1..r : q \in 1..n \/ q = r
  BY <1>3, <1>7
<1> HIDE DEF n
<1>9. Keeps(ran, ran')
  BY <1>3, <1>7, <1>8 DEF Keeps
<1>10. a = Repl => g = 0 /\ k = 0
  BY <1>2 DEF Fits, Prompted, Asking, InGraph
<1>11. a \in Tab => /\ c.at = "bound" /\ s = c.session /\ p = c.prompt
                    /\ HoldsScript(c, a, ran, confirms[a]) /\ Permit(c) = k
                    /\ g = 0 => k = 0
  BY <1>2, OwnScript, NameAssumption DEF Permit, Fits, Asking
<1>12. k = 0 \/ (a \in Tab /\ k \in 1..confirms[a] /\ Unused(k, a, ran))
  BY <1>10, <1>11 DEF HoldsScript, Actor
<1>13. g # 0 => a \in Tab /\ k # 0 /\ Gated(g, a, p, ran)
  BY <1>10, <1>11 DEF HoldsScript, Actor
<1>14. ASSUME NEW t \in Tab, NEW v \in Nat, v # 0, t = a => v # k, Unused(v, t, ran)
       PROVE  Unused(v, t, ran')
  BY <1>3, <1>5, <1>7, <1>8, <1>14 DEF Unused
<1>15. Types'
  <2> DEFINE w == [run |-> r, session |-> observer[a].session, prompt |-> p, by |-> {},
                   success |-> TRUE]
  <2>1. observer[a] \in AnyObserver
    BY <1>2 DEF Types
  <2>2. w \in Record \cup {None}
    BY <1>3, <2>1 DEF Record, AnyObserver
  <2>3. observer' = [observer EXCEPT ![a].run = w]
    BY <1>1
  <2> HIDE DEF w
  <2>4. observer' \in [Actor -> AnyObserver]
    BY <1>2, <2>2, <2>3, ObserverAt
  <2> QED
    BY <1>1, <1>2, <1>6, <1>7, <2>4 DEF Types
<1>16. \A b \in Actor, j \in Script : Fits(script'[b][j], b, ran')
  <2> SUFFICES ASSUME NEW b \in Actor, NEW j \in Script
               PROVE  Fits(script'[b][j], b, ran')
    OBVIOUS
  <2>1. Fits(script[b][j], b, ran)
    BY <1>2 DEF Sound
  <2>2. Fits(script[b][j], b, ran')
    BY <1>9, <2>1, FitsKept
  <2>3. Fits(d, a, ran')
    BY <1>2, <1>3, <1>4, <1>5, <1>7, <1>8, <1>10
       DEF Fits, HasRun, InGraph, Prompted, Asking
  <2> QED
    BY <2>2, <2>3, <1>6
<1>17. ASSUME NEW t \in Tab
       PROVE  /\ t \in Actor /\ page'[t] = page[t] /\ Current(script[t], page[t])
              /\ HoldsPage(t, page[t], ran, confirms[t])
              /\ Apart(script[t], page[t], confirms[t])
              /\ \A j \in Script : HoldsScript(script[t][j], t, ran, confirms[t])
              /\ confirms[t] \in Nat
  BY <1>2, PromptOfPage DEF Types
<1>18. ASSUME NEW t \in Tab
       PROVE  Current(script'[t], page'[t])
  <2>1. CASE t # a
    BY <1>6, <1>17, <2>1
  <2>2. CASE t = a
    <3>1. c.at = "bound" /\ s = c.session /\ p = c.prompt
      BY <1>11, <2>2
    <3>2. Live(d) = Live(c)
      BY <3>1, <1>4 DEF Live
    <3>3. Live(c) => Serves(d, page[t])
      <4>1. Live(c) => Serves(c, page[t])
        BY <1>17, <2>2 DEF Current
      <4> QED
        BY <4>1, <3>1, <1>4, WaitsOn DEF Waiting, InGraph
    <3> QED
      BY <3>2, <3>3, <1>17, <2>2, <1>6 DEF Current
  <2> QED
    BY <2>1, <2>2
<1>19. \A t \in Tab : Talk(page'[t], ran') /\ Proposed(page'[t], ran')
  BY <1>2, <1>9, <1>17, TalkKept, ProposedKept DEF Sound
<1>20. ASSUME NEW t \in Tab
       PROVE  Holds(t, script'[t], page'[t], ran', confirms'[t])
  <2> DEFINE m == confirms[t]
  <2>1. Permit(d) = 0 /\ (t = a => Gives(d) = Gives(c))
    BY <1>4, <1>11 DEF Permit, HasRun, InGraph, Asking, Gives, Live
  <2>2. HoldsPage(t, page[t], ran', m)
    <3>1. page[t].bypass # None => Unused(OnPage(page[t]), t, ran')
      <4> SUFFICES ASSUME page[t].bypass # None
                   PROVE  Unused(OnPage(page[t]), t, ran')
        OBVIOUS
      <4>1. OnPage(page[t]) \in 1..m /\ Unused(OnPage(page[t]), t, ran)
        BY <1>17 DEF HoldsPage
      <4>2. t = a => OnPage(page[t]) # k
        BY <1>11, <1>17, <4>1 DEF Apart
      <4> QED
        BY <4>1, <4>2, <1>14, <1>17
    <3> QED
      BY <3>1, <1>9, <1>17, GatedKept DEF HoldsPage
  <2>3. ASSUME NEW j \in Script
        PROVE  HoldsScript(script'[t][j], t, ran', m)
    <3> DEFINE e == script[t][j]
    <3>1. Gives(e) => Unused(m, t, ran') /\ m # 0
      <4> SUFFICES ASSUME Gives(e)
                   PROVE  Unused(m, t, ran') /\ m # 0
        OBVIOUS
      <4>1. m # 0 /\ Unused(m, t, ran)
        BY <1>17 DEF HoldsScript
      <4>2. t = a => m # k
        BY <1>11, <1>17 DEF Apart
      <4> QED
        BY <4>1, <4>2, <1>14, <1>17
    <3>2. CASE t = a /\ j = i
      <4>1. script'[t][j] = d
        BY <3>2, <1>6
      <4>2. Gives(d) => Gives(e) /\ d.confirm = e.confirm
        BY <3>2, <2>1, <1>4
      <4>3. d.at \notin Asking \cup {"bound"}
        BY <1>4 DEF Asking
      <4> QED
        BY <3>1, <4>1, <4>2, <4>3, <2>1, <1>17, <3>2 DEF HoldsScript
    <3>3. CASE t # a \/ j # i
      <4>1. script'[t][j] = e /\ HoldsScript(e, t, ran, m)
        BY <3>3, <1>6, <1>17
      <4>2. Permit(e) # 0 => Unused(Permit(e), t, ran')
        <5> SUFFICES ASSUME Permit(e) # 0
                     PROVE  Unused(Permit(e), t, ran')
          OBVIOUS
        <5>1. Permit(e) \in 1..m /\ Unused(Permit(e), t, ran)
          BY <4>1 DEF HoldsScript
        <5>2. t = a => Permit(e) # k
          BY <1>11, <1>17, <3>3 DEF Apart
        <5> QED
          BY <5>1, <5>2, <1>14, <1>17
      <4> QED
        BY <3>1, <4>1, <4>2, <1>9, GatedKept DEF HoldsScript
    <3> QED
      BY <3>2, <3>3
  <2>4. Apart(script'[t], page[t], m)
    <3>1. \A j \in Script : /\ Permit(script'[t][j]) \in {0, Permit(script[t][j])}
                            /\ Gives(script'[t][j]) = Gives(script[t][j])
      BY <2>1, <1>6, <1>17
    <3>2. \A j \in Script : Gives(script'[t][j]) => m # 0
      BY <2>3 DEF HoldsScript
    <3> QED
      BY <3>1, <3>2, <1>17 DEF Apart
  <2> QED
    BY <2>2, <2>3, <2>4, <1>17 DEF Holds
<1>21. Bypassed(ran', confirms')
  <2> SUFFICES ASSUME NEW u \in 1..r
               PROVE  IF ran'[u].gate = 0 THEN ran'[u].click = 0
                      ELSE /\ Gated(ran'[u].gate, ran'[u].actor, ran'[u].prompt, ran')
                           /\ ran'[u].actor \in Tab
                           /\ ran'[u].click \in 1..confirms[ran'[u].actor]
                           /\ \A q \in 1..r :
                                ran'[q].actor = ran'[u].actor
                                /\ ran'[q].click = ran'[u].click => q = u
    BY <1>8 DEF Bypassed
  <2>1. CASE u = r
    <3>1. ran'[u] = x
      BY <2>1, <1>7
    <3>2. CASE g = 0
      BY <3>1, <3>2, <1>5, <1>10, <1>11 DEF Actor
    <3>3. CASE g # 0
      <4>1. Gated(g, a, p, ran')
        BY <3>3, <1>9, <1>13, GatedKept
      <4>2. \A q \in 1..r : ran'[q].actor = a /\ ran'[q].click = k => q = r
        BY <3>3, <1>3, <1>7, <1>8, <1>12, <1>13 DEF Unused
      <4> QED
        BY <3>1, <3>3, <4>1, <4>2, <2>1, <1>5, <1>12, <1>13
    <3> QED
      BY <3>2, <3>3
  <2>2. CASE u \in 1..n
    <3> DEFINE y == ran[u]
    <3>1. ran'[u] = y
      BY <2>2, <1>7
    <3>2. IF y.gate = 0 THEN y.click = 0
          ELSE /\ Gated(y.gate, y.actor, y.prompt, ran)
               /\ y.actor \in Tab /\ y.click \in 1..confirms[y.actor]
               /\ \A q \in 1..n : ran[q].actor = y.actor /\ ran[q].click = y.click => q = u
      BY <2>2, <1>2, <1>3 DEF Sound, Bypassed
    <3>3. CASE y.gate = 0
      BY <3>1, <3>2, <3>3
    <3>4. CASE y.gate # 0
      <4>1. Gated(y.gate, y.actor, y.prompt, ran')
        BY <3>2, <3>4, <1>9, GatedKept
      <4>2. ~(a = y.actor /\ k = y.click)
        <5> SUFFICES ASSUME a = y.actor, k = y.click
                     PROVE  FALSE
          OBVIOUS
        <5>1. k # 0
          BY <3>2, <3>4, <1>17
        <5> QED
          BY <5>1, <1>3, <1>12, <2>2 DEF Unused
      <4>3. \A q \in 1..r : ran'[q].actor = y.actor /\ ran'[q].click = y.click => q = u
        BY <3>2, <3>4, <4>2, <1>5, <1>7, <1>8
      <4> QED
        BY <3>1, <3>2, <3>4, <4>1, <4>3
    <3> QED
      BY <3>3, <3>4
  <2> QED
    BY <2>1, <2>2, <1>8
<1>22. Owned(script', ran')
  <2> SUFFICES ASSUME NEW b \in Actor, NEW j \in Script, script'[b][j].at \in HasRun
               PROVE  /\ script'[b][j].at = "opened" =>
                           ran'[script'[b][j].run].outcome # "gated"
                      /\ \A e \in Actor, f \in Script :
                           script'[e][f].at \in HasRun
                           /\ script'[e][f].run = script'[b][j].run => e = b /\ f = j
    BY DEF Owned
  <2>1. ASSUME NEW e \in Actor, NEW f \in Script, e # a \/ f # i,
               script'[e][f].at \in HasRun
        PROVE  /\ script'[e][f] = script[e][f] /\ script[e][f].run \in 1..n
               /\ ran'[script[e][f].run] = ran[script[e][f].run]
               /\ script[e][f].run # r
    <3>1. script'[e][f] = script[e][f]
      BY <2>1, <1>6
    <3>2. script[e][f].run \in DOMAIN ran
      BY <2>1, <3>1, OwnRun
    <3> QED
      BY <3>1, <3>2, <1>3, <1>7
  <2>2. CASE b = a /\ j = i
    <3>1. script'[b][j].run = r /\ ran'[r].outcome = None
      BY <2>2, <1>4, <1>5, <1>6, <1>7
    <3>2. None # "gated"
      BY NameAssumption
    <3>3. ASSUME NEW e \in Actor, NEW f \in Script, script'[e][f].at \in HasRun,
                 script'[e][f].run = r
          PROVE  e = a /\ f = i
      BY <2>1, <3>3
    <3> QED
      BY <2>2, <3>1, <3>2, <3>3
  <2>3. CASE b # a \/ j # i
    <3>1. /\ script'[b][j] = script[b][j] /\ script[b][j].run # r
          /\ ran'[script[b][j].run] = ran[script[b][j].run]
      BY <2>1, <2>3
    <3>2. script[b][j].at = "opened" => ran[script[b][j].run].outcome # "gated"
      BY <1>2, <3>1 DEF Owned
    <3>3. ASSUME NEW e \in Actor, NEW f \in Script, script'[e][f].at \in HasRun,
                 script'[e][f].run = script'[b][j].run
          PROVE  e = b /\ f = j
      <4>1. e # a \/ f # i
        BY <3>1, <3>3, <1>4, <1>6
      <4>2. script'[e][f] = script[e][f]
        BY <2>1, <3>3, <4>1
      <4> QED
        BY <3>1, <3>3, <4>2, <1>2 DEF Owned
    <3> QED
      BY <3>1, <3>2, <3>3
  <2> QED
    BY <2>2, <2>3
<1>23. \A t \in Tab, j \in Script : Reads(script'[t][j], page'[t], history')
  <2> SUFFICES ASSUME NEW t \in Tab, NEW j \in Script
               PROVE  Reads(script'[t][j], page[t], history)
    BY <1>1, <1>17
  <2>1. Reads(script[t][j], page[t], history) /\ t \in Actor
    BY <1>17 DEF CInv
  <2> QED
    BY <2>1, <1>4, <1>6 DEF Reads
<1>24. \A z \in Session : Past(history'[z], z, ran')
  BY <1>1, <1>9, PastKept DEF CInv
<1>25. Sound(page', script', ran', confirms')
  BY <1>16, <1>18, <1>19, <1>20, <1>21 DEF Sound
<1> QED
  BY <1>15, <1>22, <1>23, <1>24, <1>25 DEF CInv

LEMMA StartRunKeeps ==
  ASSUME CInv, NEW t \in Tab, NEW i \in Script, StartRun(t, i)
  PROVE  CInv'
<1>1. /\ script[t][i].at = "bound" /\ t \in Actor
      /\ Opened(t, i, script[t][i].session, script[t][i].prompt)
      /\ UNCHANGED <<page, typed, confirms>>
  BY DEF StartRun, Actor, input
<1>2. script[t][i].session \in Session /\ script[t][i].prompt \in Prompt
  BY <1>1, OwnScript DEF Fits, Prompted, InGraph
<1>3. /\ page' \in [Actor -> Page] /\ \A u \in Tab : page'[u] = page[u]
      /\ typed' \in 0..MaxPrompts
  BY <1>1 DEF CInv, Types
<1> QED
  BY <1>1, <1>2, <1>3, OpenedKeeps

LEMMA ReplAskKeeps ==
  ASSUME CInv, NEW s \in Session, ReplAsk(s)
  PROVE  CInv'
<1>1. /\ AtPrompt /\ typed < MaxPrompts /\ typed' = typed + 1
      /\ page' = [page EXCEPT ![Repl].session = s]
      /\ Opened(Repl, Line, s, Text[typed + 1]) /\ UNCHANGED confirms
  BY DEF ReplAsk
<1>2. Line \in Script /\ Repl \in Actor
  BY ScriptAssumption DEF Line, Actor
<1>3. script[Repl][Line].at = "idle"
  BY <1>1, <1>2 DEF AtPrompt, Busy
<1>4. typed \in Nat /\ typed' \in 0..MaxPrompts /\ Text[typed + 1] \in Prompt
  BY <1>1, TextAssumption, ScriptAssumption DEF CInv, Types
<1>5. page \in [Actor -> Page] /\ page[Repl] \in Page
  BY <1>2 DEF CInv, Types
<1>6. [page[Repl] EXCEPT !.session = s] \in Page
  BY <1>5 DEF Page
<1>7. /\ page'[Repl] = [page[Repl] EXCEPT !.session = s]
      /\ \A b \in Actor \ {Repl} : page'[b] = page[b]
      /\ page' = [b \in Actor |-> page'[b]]
  BY <1>1, <1>2, <1>5
<1>8. page' \in [Actor -> Page]
  BY <1>5, <1>6, <1>7
<1>9. \A t \in Tab : page'[t] = page[t]
  BY <1>7, NameAssumption DEF Actor
<1> QED
  BY <1>1, <1>2, <1>3, <1>4, <1>8, <1>9, OpenedKeeps


-----------------------------------------------------------------------------
(* The steps between two runs.  Script i of tab t becomes d, its page q.       *)

LEMMA PageStep ==
  ASSUME CInv, NEW t \in Tab, NEW i \in Script, NEW d \in Running, NEW q \in Page,
         script' = [script EXCEPT ![t][i] = d], page' = [page EXCEPT ![t] = q],
         UNCHANGED <<observer, log, rows, ran, sessions, history, typed, confirms>>,
         Live(script[t][i]),
         d.at \in HasRun => script[t][i].at \in HasRun /\ d.run = script[t][i].run,
         d.at # "opened",
         q.session \in Session, Fits(d, t, ran), Reads(d, q, history),
         Moves(t, script[t][i], d, page[t], q, ran, confirms[t])
  PROVE  CInv'
<1>1. /\ Types /\ Sound(page, script, ran, confirms) /\ Owned(script, ran) /\ t \in Actor
      /\ page \in [Actor -> Page] /\ script \in [Actor -> [Script -> Running]]
  BY DEF CInv, Types, Actor
<1>2. /\ t \in Actor /\ i \in Script /\ d \in Running
      /\ script \in [Actor -> [Script -> Running]]
      /\ script' = [script EXCEPT ![t][i] = d]
  BY <1>1
<1>3. /\ script' \in [Actor -> [Script -> Running]]
      /\ script'[t][i] = d
      /\ \A b \in Actor \ {t} : script'[b] = script[b]
      /\ \A j \in Script \ {i} : script'[t][j] = script[t][j]
                                 /\ Alike(script'[t][j], script[t][j])
  BY ONLY <1>2, ScriptAt
<1>4. /\ page' \in [Actor -> Page] /\ page'[t] = q
      /\ \A b \in Actor \ {t} : page'[b] = page[b]
  BY <1>1
<1>5. Types'
  <2>1. \A u \in Tab : page'[u].session \in Session
    BY <1>1, <1>4 DEF Types, Actor
  <2> QED
    BY <1>1, <1>3, <1>4, <2>1 DEF Types
<1>6. Sound(page', script', ran', confirms')
  <2>1. /\ Sound(page, script, ran, confirms) /\ Same(ran, ran')
        /\ \A b \in Actor \ {t} : page'[b] = page[b] /\ script'[b] = script[b]
        /\ \A j \in Script \ {i} : Alike(script'[t][j], script[t][j])
        /\ Fits(script'[t][i], t, ran')
        /\ Moves(t, script[t][i], script'[t][i], page[t], page'[t], ran', confirms[t])
        /\ confirms' = confirms
    BY <1>1, <1>3, <1>4, SameSelf
  <2> QED
    BY <2>1, TabSound
<1>7. Owned(script', ran')
  <2>1. /\ Owned(script, ran) /\ ran' = ran
        /\ \A b \in Actor \ {t} : script'[b] = script[b]
        /\ \A j \in Script \ {i} : Alike(script'[t][j], script[t][j])
        /\ script'[t][i].at \in HasRun =>
             script[t][i].at \in HasRun /\ script'[t][i].run = script[t][i].run
        /\ script'[t][i].at # "opened"
    BY <1>1, <1>3
  <2> QED
    BY <2>1, TabOwned
<1>8. ASSUME NEW u \in Tab, NEW j \in Script
      PROVE  Reads(script'[u][j], page'[u], history')
  <2>1. CASE u # t
    BY <2>1, <1>3, <1>4 DEF CInv, Actor
  <2>2. CASE u = t /\ j = i
    BY <2>2, <1>3, <1>4
  <2>3. CASE u = t /\ j # i
    <3>1. Fits(script[t][j], t, ran) /\ Current(script[t], page[t])
      BY <1>1 DEF Sound
    <3>2. ~Live(script[t][j])
      BY <3>1, <2>3 DEF Current
    <3>3. script[t][j].at # "resume"
      BY <3>1, <3>2 DEF Live, Fits, InGraph
    <3> QED
      BY <3>3, <2>3, <1>3 DEF Reads
  <2> QED
    BY <2>1, <2>2, <2>3
<1>9. \A z \in Session : Past(history'[z], z, ran')
  BY DEF CInv
<1> QED
  BY <1>5, <1>6, <1>7, <1>8, <1>9 DEF CInv

\* A script that has no permission for its prompt.
LEMMA Carries ==
  ASSUME NEW c, NEW d, NEW t, NEW R, NEW n, HoldsScript(c, t, R, n),
         \/ d.trigger = "none"
         \/ d.trigger = c.trigger /\ d.confirm = c.confirm /\ Live(c) /\ c.at # "confirming",
         d.at \notin Asking \cup {"bound"} \/ (d.click = 0 /\ d.gate = 0)
  PROVE  HoldsScript(d, t, R, n) /\ (Gives(d) => Gives(c)) /\ Permit(d) = 0
<1>1. Permit(d) = 0
  BY DEF Permit
<1>2. Gives(d) => Gives(c) /\ d.confirm = c.confirm
  BY DEF Gives
<1> QED
  BY <1>1, <1>2 DEF HoldsScript

\* The same messages.
LEMMA TalkSame ==
  ASSUME NEW p, NEW q, NEW R, Talk(p, R), q.messages = p.messages,
         q.torn \/ (q.session = p.session /\ q.torn = p.torn)
  PROVE  Talk(q, R)
BY DEF Talk

\* The rest of the script, with the panel.
LEMMA OnwardType ==
  ASSUME NEW c \in Running, NEW q \in Page, NEW d, d = Onward(c, q.pending),
         c.at # "confirming", Live(c), NEW t \in Tab, NEW R, NEW n,
         HoldsScript(c, t, R, n)
  PROVE  /\ d \in Running /\ d.at \in {"idle", "panel"}
         /\ Fits(d, t, R) /\ (Live(d) => Serves(d, q))
         /\ HoldsScript(d, t, R, n) /\ (Gives(d) => Gives(c)) /\ Permit(d) = 0
<1> DEFINE panel == c.trigger \in {"confirm", "cancel"} /\ q.pending # None
<1>1. CASE panel
  <2>1. d = [Idle EXCEPT !.at = "panel", !.trigger = c.trigger, !.confirm = c.confirm]
    BY <1>1 DEF Onward
  <2>2. /\ d \in Running /\ d.at = "panel" /\ ~d.stopped /\ d.trigger = c.trigger
        /\ d.confirm = c.confirm /\ d.gate = 0 /\ d.click = 0
    <3>1. /\ Idle \in Running /\ ~Idle.stopped /\ Idle.gate = 0 /\ Idle.click = 0
          /\ c.trigger \in Trigger /\ c.confirm \in Nat
      BY IdleType DEF Idle, Running
    <3>2. "panel" \in At
      BY DEF At
    <3> QED
      BY <2>1, <3>1, <3>2 DEF Running
  <2>3. Fits(d, t, R)
    BY <1>1, <2>2, NameAssumption DEF Fits, InGraph, HasRun, Prompted, Asking
  <2>4. Serves(d, q)
    BY <1>1, <2>2 DEF Serves, Switching, Prompted, Asking, InGraph, Waiting
  <2>5. HoldsScript(d, t, R, n) /\ (Gives(d) => Gives(c)) /\ Permit(d) = 0
    BY <2>2, Carries DEF Asking
  <2> QED
    BY <2>2, <2>3, <2>4, <2>5
<1>2. CASE ~panel
  <2>1. d = Idle
    BY <1>2 DEF Onward
  <2> QED
    BY <2>1, IdleType, IdleFields, IdleFits
<1> QED
  BY <1>1, <1>2

\* Script c is live while it is not in the graph or idle.
LEMMA LiveAt ==
  ASSUME CInv, NEW t \in Tab, NEW i \in Script, script[t][i].at \notin InGraph \cup {"idle"}
  PROVE  /\ Live(script[t][i]) /\ Serves(script[t][i], page[t])
         /\ ~script[t][i].stopped
BY OwnScript DEF Live, Fits, Actor

\* A page on which only the proposal and the prompts may have changed.
LEMMA PageSame ==
  ASSUME NEW p, NEW q, NEW R, NEW t, NEW n, Talk(p, R), Proposed(p, R),
         HoldsPage(t, p, R, n),
         q.session = p.session, q.messages = p.messages, q.torn = p.torn,
         q.pending \in {p.pending, None}, q.bypass \in {p.bypass, None}
  PROVE  /\ Talk(q, R) /\ Proposed(q, R) /\ HoldsPage(t, q, R, n)
         /\ OnPage(q) \in {0, OnPage(p)}
<1>1. Talk(q, R)
  BY TalkSame
<1>2. Proposed(q, R)
  BY DEF Proposed, Unasked
<1>3. HoldsPage(t, q, R, n) /\ OnPage(q) \in {0, OnPage(p)}
  BY DEF HoldsPage, OnPage
<1> QED
  BY <1>1, <1>2, <1>3

-----------------------------------------------------------------------------
(* The switch of a session.                                                   *)

EnteredScript(to) == [Idle EXCEPT !.at = to, !.step = 1]
EnteredPage(p, s) == [p EXCEPT !.session = s, !.torn = TRUE]

LEMMA EnteredType ==
  ASSUME NEW to \in {"new", "resume"}, NEW d, d = EnteredScript(to)
  PROVE  /\ d \in Running /\ d.at = to /\ ~d.stopped /\ d.trigger = "none" /\ d.step = 1
         /\ d.read = 0 /\ d.gate = 0 /\ d.click = 0
BY DEF EnteredScript, Idle, Running, At, Trigger

LEMMA EnteredPageType ==
  ASSUME NEW p \in Page, NEW s \in Session, NEW q, q = EnteredPage(p, s)
  PROVE  /\ q \in Page /\ q.session = s /\ q.torn /\ q.messages = p.messages
         /\ q.pending = p.pending /\ q.bypass = p.bypass
BY DEF EnteredPage, Page

LEMMA EnteredKeeps ==
  ASSUME CInv, NEW t \in Tab, NEW i \in Script, script[t][i].at = "top",
         NEW s \in Session, NEW to \in {"new", "resume"}, Entered(t, i, s, to)
  PROVE  CInv'
<1> DEFINE c == script[t][i]
           p == page[t]
           n == confirms[t]
<1>1. /\ t \in Actor /\ p \in Page /\ Talk(p, ran) /\ Proposed(p, ran)
      /\ HoldsPage(t, p, ran, n) /\ HoldsScript(c, t, ran, n)
      /\ page \in [Actor -> Page] /\ history \in [Session -> Seq(AnyTurn)]
  BY PromptOfPage DEF CInv, Types
<1>2. PICK d : d = EnteredScript(to) /\ to \in {"new", "resume"}
  OBVIOUS
<1>3. PICK q : q = EnteredPage(p, s) /\ p \in Page /\ s \in Session
  BY <1>1
<1>4. /\ d \in Running /\ d.at = to /\ ~d.stopped /\ d.trigger = "none" /\ d.step = 1
      /\ d.read = 0 /\ d.gate = 0 /\ d.click = 0
  BY ONLY <1>2, EnteredType
<1>5. /\ q \in Page /\ q.session = s /\ q.torn /\ q.messages = p.messages
      /\ q.pending = p.pending /\ q.bypass = p.bypass
  BY ONLY <1>3, EnteredPageType
<1>6. /\ script' = [script EXCEPT ![t][i] = d] /\ page' = [page EXCEPT ![t] = q]
      /\ UNCHANGED <<observer, log, rows, ran, sessions, history, typed, confirms>>
  BY <1>1, <1>2, <1>3 DEF Entered, EnteredScript, EnteredPage, runLog, input
<1>7. Live(c)
  BY LiveAt DEF InGraph
<1>8. Fits(d, t, ran)
  BY <1>4, NameAssumption DEF Fits, InGraph, HasRun, Prompted, Asking
<1>9. Serves(d, q)
  BY <1>4, <1>5 DEF Serves, Switching, Prompted, Asking, InGraph, Waiting
<1>10. Reads(d, q, history)
  BY <1>1, <1>4, <1>5 DEF Reads
<1>11. Moves(t, c, d, p, q, ran, n)
  <2>1. HoldsScript(d, t, ran, n) /\ (Gives(d) => Gives(c)) /\ Permit(d) = 0
    BY <1>1, <1>4, Carries DEF Asking
  <2>2. Talk(q, ran)
    BY <1>1, <1>5, TalkSame
  <2>3. Proposed(q, ran) /\ HoldsPage(t, q, ran, n) /\ OnPage(q) = OnPage(p)
    BY <1>1, <1>5 DEF Proposed, HoldsPage, OnPage, Unasked
  <2> QED
    BY <1>7, <1>9, <2>1, <2>2, <2>3 DEF Moves
<1>12. d.at \notin HasRun /\ d.at # "opened"
  BY <1>4 DEF HasRun, InGraph
<1> QED
  BY <1>4, <1>5, <1>6, <1>7, <1>8, <1>10, <1>11, <1>12, PageStep

LEMMA NewSessionKeeps ==
  ASSUME CInv, NEW t \in Tab, NEW i \in Script, NewSession(t, i)
  PROVE  CInv'
<1>1. PICK s \in Session : Entered(t, i, s, "new")
  BY DEF NewSession, Fresh
<1> QED
  BY <1>1, EnteredKeeps DEF NewSession

LEMMA ResumeSessionKeeps ==
  ASSUME CInv, NEW t \in Tab, NEW i \in Script, ResumeSession(t, i)
  PROVE  CInv'
<1>1. PICK k \in Selectable : Entered(t, i, sessions[k].id, "resume")
  BY DEF ResumeSession
<1>2. sessions[k] \in AnyRow
  BY DEF CInv, Types, Selectable
<1>3. PICK s \in Session : s = sessions[k].id
  BY <1>2 DEF AnyRow
<1> QED
  BY <1>1, <1>3, EnteredKeeps DEF ResumeSession

LEMMA SteppedType ==
  ASSUME NEW c \in Running, NEW n \in Nat
  PROVE  LET d == Stepped(c, n)
         IN /\ d \in Running /\ d.at = c.at /\ d.stopped = c.stopped
            /\ d.trigger = c.trigger /\ d.confirm = c.confirm /\ d.step = c.step + 1
            /\ d.read = n /\ d.gate = c.gate /\ d.click = c.click
<1>1. PICK k \in Nat : k = c.step + 1
  BY DEF Running
<1>2. Stepped(c, n) = [c EXCEPT !.step = k, !.read = n]
  BY <1>1 DEF Stepped
<1>3. [c EXCEPT !.step = k, !.read = n] \in Running
  BY DEF Running
<1> QED
  BY <1>1, <1>2, <1>3 DEF Running

LEMMA ReadHistoryKeeps ==
  ASSUME CInv, NEW t \in Tab, NEW i \in Script, ReadHistory(t, i)
  PROVE  CInv'
<1> DEFINE c == script[t][i]
           p == page[t]
           n == confirms[t]
           h == history[p.session]
<1>1. /\ t \in Actor /\ p \in Page /\ Talk(p, ran) /\ Proposed(p, ran)
      /\ HoldsPage(t, p, ran, n) /\ HoldsScript(c, t, ran, n) /\ p.session \in Session
      /\ page \in [Actor -> Page] /\ h \in Seq(AnyTurn)
      /\ c \in Running /\ Fits(c, t, ran) /\ Reads(c, p, history)
      /\ script \in [Actor -> [Script -> Running]]
  BY PromptOfPage, OwnScript DEF CInv, Types
<1>2. c.at = "resume" /\ ResumeSteps[c.step] = "history" /\ c.step \in 1..5
  BY <1>1 DEF ReadHistory, Fits
<1>3. c.step = 4
  BY <1>2 DEF ResumeSteps
<1>4. Live(c) /\ Serves(c, p) /\ ~c.stopped
  BY <1>2, LiveAt DEF InGraph
<1>5. c.read \in Nat /\ c.read <= Len(h) /\ Len(h) \in Nat
  BY <1>1, <1>2 DEF Running, Reads
<1>6. PICK k \in {0, Len(h)} : script' = [script EXCEPT ![t][i] = Stepped(c, k)]
  BY DEF ReadHistory
<1>7. PICK d : d = Stepped(c, k)
  OBVIOUS
<1>8. /\ d \in Running /\ d.at = "resume" /\ ~d.stopped /\ d.trigger = c.trigger
      /\ d.confirm = c.confirm /\ d.step = 5 /\ d.read = k
      /\ d.gate = c.gate /\ d.click = c.click
  <2>1. k \in Nat
    BY <1>5
  <2>2. /\ d \in Running /\ d.at = c.at /\ d.stopped = c.stopped
        /\ d.trigger = c.trigger /\ d.confirm = c.confirm /\ d.step = c.step + 1
        /\ d.read = k /\ d.gate = c.gate /\ d.click = c.click
    BY <1>1, <1>7, <2>1, SteppedType
  <2> QED
    BY <2>2, <1>2, <1>3, <1>4
<1>9. /\ script' = [script EXCEPT ![t][i] = d] /\ page' = [page EXCEPT ![t] = p]
      /\ UNCHANGED <<observer, log, rows, ran, sessions, history, typed, confirms>>
  <2>1. /\ page' = page
        /\ UNCHANGED <<observer, log, rows, ran, sessions, history, typed, confirms>>
    BY DEF ReadHistory, runLog, input
  <2>2. script' = [script EXCEPT ![t][i] = d]
    BY <1>6, <1>7
  <2> QED
    BY <1>1, <2>1, <2>2
<1>10. Fits(d, t, ran)
  BY <1>1, <1>2, <1>8, NameAssumption DEF Fits, InGraph, HasRun, Prompted, Asking
<1>11. Serves(d, p)
  BY <1>2, <1>3, <1>4, <1>8 DEF Serves, Switching, Prompted, Asking, InGraph, Waiting
<1>12. Reads(d, p, history)
  BY <1>5, <1>6, <1>8 DEF Reads
<1>13. Moves(t, c, d, p, p, ran, n)
  <2>1. HoldsScript(d, t, ran, n) /\ (Gives(d) => Gives(c)) /\ Permit(d) = 0
    BY <1>1, <1>2, <1>4, <1>8, Carries DEF Asking
  <2> QED
    BY <1>1, <1>4, <1>11, <2>1 DEF Moves
<1>14. d.at \notin HasRun /\ d.at # "opened"
  BY <1>8 DEF HasRun, InGraph
<1> QED
  BY <1>1, <1>4, <1>8, <1>9, <1>10, <1>12, <1>13, <1>14, PageStep

LEMMA UserType ==
  ASSUME NEW p \in Prompt, NEW s \in Session, NEW x, x = User(p, s)
  PROVE  x \in Message /\ x.role = "user" /\ x.prompt = p /\ x.session = s
BY DEF User, Message, Outcome

LEMMA AssistantType ==
  ASSUME NEW p \in Prompt, NEW s \in Session, NEW r \in Run, NEW k \in Outcome,
         NEW x, x = Assistant(p, s, r, k)
  PROVE  /\ x \in Message /\ x.role = "assistant" /\ x.prompt = p /\ x.session = s
         /\ x.run = r /\ x.kind = k
BY DEF Assistant, Message, Run

\* What is shown of a checkpoint is a conversation of its session.
LEMMA ShownTalks ==
  ASSUME CInv, NEW s \in Session, NEW n \in Nat, n <= Len(history[s]),
         NEW q, q.session = s, q.messages = Shown(s, n)
  PROVE  Shown(s, n) \in Seq(Message) /\ Talk(q, ran)
<1> DEFINE h == history[s]
           l == Len(h)
           m == Shown(s, n)
           Of(k) == h[(k + 1) \div 2]
<1>1. h \in Seq(AnyTurn) /\ Past(h, s, ran)
  BY DEF CInv, Types
<1>2. l \in Nat /\ DOMAIN h = 1..l /\ n <= l
  BY <1>1
<1>3. \A k \in 1..(2 * n) : (k + 1) \div 2 \in 1..l
  BY <1>2
<1>4. ASSUME NEW k \in 1..(2 * n)
      PROVE  /\ Of(k) \in AnyTurn /\ Of(k).run \in Run /\ Of(k).prompt \in Prompt
             /\ Of(k).run \in DOMAIN ran
             /\ ran[Of(k).run].prompt = Of(k).prompt /\ ran[Of(k).run].session = s
  <2>1. (k + 1) \div 2 \in DOMAIN h
    BY <1>2, <1>3
  <2> HIDE DEF h
  <2>2. h[(k + 1) \div 2] \in AnyTurn
    BY <1>1, <2>1
  <2>3. /\ h[(k + 1) \div 2].run \in DOMAIN ran
        /\ ran[h[(k + 1) \div 2].run].prompt = h[(k + 1) \div 2].prompt
        /\ ran[h[(k + 1) \div 2].run].session = s
    BY ONLY <1>1, <2>1 DEF Past
  <2> QED
    BY <2>2, <2>3 DEF AnyTurn
<1> HIDE DEF h, l
<1>5. m = [k \in 1..(2 * n) |-> IF k % 2 = 1 THEN User(Of(k).prompt, s)
                                ELSE Assistant(Of(k).prompt, s, Of(k).run, "answered")]
  BY DEF Shown, h
<1> HIDE DEF m, Of
<1>6. ASSUME NEW k \in 1..(2 * n)
      PROVE  /\ m[k] \in Message /\ m[k].session = s /\ m[k].prompt = Of(k).prompt
             /\ k % 2 = 1 => m[k] = User(Of(k).prompt, s) /\ m[k].role = "user"
             /\ k % 2 # 1 => m[k].role = "assistant" /\ m[k].run = Of(k).run
  <2>1. CASE k % 2 = 1
    <3>1. m[k] = User(Of(k).prompt, s)
      BY <1>5, <2>1
    <3> QED
      BY <3>1, <2>1, <1>4, UserType
  <2>2. CASE k % 2 # 1
    <3>1. m[k] = Assistant(Of(k).prompt, s, Of(k).run, "answered")
      BY <1>5, <2>2
    <3>2. "answered" \in Outcome
      BY DEF Outcome
    <3> QED
      BY <3>1, <3>2, <2>2, <1>4, AssistantType
  <2> QED
    BY <2>1, <2>2
<1>7. m \in Seq(Message) /\ DOMAIN m = 1..(2 * n)
  <2>1. 2 * n \in Nat
    BY <1>2
  <2>2. m \in [1..(2 * n) -> Message]
    BY <1>5, <1>6
  <2> QED
    BY <2>1, <2>2
<1>8. ASSUME NEW k \in 1..(2 * n), k % 2 # 1
      PROVE  /\ k > 1 /\ k - 1 \in 1..(2 * n) /\ (k - 1) % 2 = 1 /\ Of(k - 1) = Of(k)
  <2>1. k > 1 /\ k - 1 \in 1..(2 * n) /\ (k - 1) % 2 = 1
    BY <1>2, <1>8
  <2>2. (k - 1 + 1) \div 2 = (k + 1) \div 2
    BY <1>2, <1>8
  <2> QED
    BY <2>1, <2>2 DEF Of
<1>9. ASSUME NEW k \in 1..(2 * n)
      PROVE  /\ m[k].session = s
             /\ m[k].role = "assistant" =>
                  /\ k > 1 /\ m[k - 1] = User(m[k].prompt, m[k].session)
                  /\ m[k].run \in DOMAIN ran
                  /\ ran[m[k].run].prompt = m[k].prompt
                  /\ ran[m[k].run].session = m[k].session
  <2>1. CASE k % 2 = 1
    BY <2>1, <1>6
  <2>2. CASE k % 2 # 1
    <3>1. k > 1 /\ m[k - 1] = User(Of(k).prompt, s)
      BY <2>2, <1>6, <1>8
    <3> QED
      BY <2>2, <3>1, <1>4, <1>6
  <2> QED
    BY <2>1, <2>2
<1>10. q.messages = m
  BY DEF m
<1>11. Talk(q, ran)
  BY <1>7, <1>9, <1>10 DEF Talk
<1> QED
  BY <1>7, <1>11 DEF m

LEMMA ShownNone ==
  ASSUME NEW s
  PROVE  Shown(s, 0) = <<>>
<1>1. 1..(2 * 0) = {}
  OBVIOUS
<1> QED
  BY <1>1 DEF Shown

LEMMA ClearedType ==
  ASSUME NEW p \in Page, NEW key, NEW m \in Seq(Message), NEW torn \in BOOLEAN,
         NEW q, q = Cleared(p, key, m, torn)
  PROVE  /\ q \in Page /\ q.session = p.session /\ q.torn = torn
         /\ q.messages = (IF key = "messages" THEN m ELSE p.messages)
         /\ q.pending = (IF key = "pending" THEN None ELSE p.pending)
         /\ q.bypass = (IF key = "bypass" THEN None ELSE p.bypass)
BY DEF Cleared, Page

\* The statements of a switch, by number.
LEMMA SwitchSteps ==
  ASSUME NEW k \in 1..5
  PROVE  /\ Len(NewSteps) = 4 /\ Len(ResumeSteps) = 5
         /\ k # 5 => NewSteps[k] = (IF k = 1 THEN "messages" ELSE IF k = 2 THEN "pending"
                                    ELSE IF k = 3 THEN "bypass" ELSE "card")
         /\ ResumeSteps[k] = (IF k = 1 THEN "pending" ELSE IF k = 2 THEN "bypass"
                              ELSE IF k = 3 THEN "card" ELSE IF k = 4 THEN "history"
                              ELSE "messages")
BY DEF NewSteps, ResumeSteps

LEMMA ResetKeeps ==
  ASSUME CInv, NEW t \in Tab, NEW i \in Script, Reset(t, i)
  PROVE  CInv'
<1> DEFINE c == script[t][i]
           p == page[t]
           n == confirms[t]
           h == history[p.session]
           steps == IF c.at = "new" THEN NewSteps ELSE ResumeSteps
           key == steps[c.step]
           last == c.step = Len(steps)
           m == Shown(p.session, c.read)
<1>1. /\ t \in Actor /\ p \in Page /\ Talk(p, ran) /\ Proposed(p, ran)
      /\ HoldsPage(t, p, ran, n) /\ HoldsScript(c, t, ran, n) /\ p.session \in Session
      /\ page \in [Actor -> Page] /\ h \in Seq(AnyTurn)
      /\ c \in Running /\ Fits(c, t, ran) /\ Reads(c, p, history)
  BY PromptOfPage, OwnScript DEF CInv, Types
<1>2. /\ c.at \in {"new", "resume"} /\ key # "history"
      /\ page' = [page EXCEPT ![t] = Cleared(p, key, m, ~last)]
      /\ script' = [script EXCEPT ![t][i] = IF last THEN Idle ELSE Stepped(c, c.read)]
      /\ UNCHANGED <<observer, log, rows, ran, sessions, history, typed, confirms>>
  BY DEF Reset, runLog, input
<1>3. Live(c) /\ Serves(c, p) /\ ~c.stopped
  BY <1>2, LiveAt DEF InGraph
<1>4. /\ c.read \in Nat /\ c.step \in 1..5 /\ (c.at = "new" => c.step # 5 /\ c.read = 0)
      /\ c.read <= Len(h)
  BY <1>1, <1>2 DEF Running, Fits, Reads
<1>5. /\ c.at = "new" =>
           /\ last <=> c.step = 4
           /\ key = (IF c.step = 1 THEN "messages" ELSE IF c.step = 2 THEN "pending"
                     ELSE IF c.step = 3 THEN "bypass" ELSE "card")
      /\ c.at = "resume" =>
           /\ last <=> c.step = 5
           /\ key = (IF c.step = 1 THEN "pending" ELSE IF c.step = 2 THEN "bypass"
                     ELSE IF c.step = 3 THEN "card" ELSE IF c.step = 4 THEN "history"
                     ELSE "messages")
  BY <1>4, SwitchSteps
<1>6. m \in Seq(Message) /\ (c.at = "new" => m = <<>>)
  <2>1. CASE c.at = "new"
    <3>1. m = <<>>
      BY <1>4, <2>1, ShownNone
    <3> QED
      BY <3>1
  <2>2. CASE c.at = "resume"
    <3>1. PICK x : x = [session |-> p.session, messages |-> m]
      OBVIOUS
    <3> QED
      BY <1>1, <1>4, <2>2, <3>1, ShownTalks
  <2> QED
    BY <1>2, <2>1, <2>2
<1>7. last \in BOOLEAN
  OBVIOUS
<1> HIDE DEF key, last, m, steps
<1>8. PICK torn \in BOOLEAN : torn = ~last
  OBVIOUS
<1>8a. PICK q : q = Cleared(p, key, m, torn)
  OBVIOUS
<1>9. /\ q \in Page /\ q.session = p.session /\ q.torn = torn
      /\ q.messages = (IF key = "messages" THEN m ELSE p.messages)
      /\ q.pending = (IF key = "pending" THEN None ELSE p.pending)
      /\ q.bypass = (IF key = "bypass" THEN None ELSE p.bypass)
  BY <1>1, <1>6, <1>8a, ClearedType
<1>10. PICK d : d = IF last THEN Idle ELSE Stepped(c, c.read)
  OBVIOUS
<1>11. /\ script' = [script EXCEPT ![t][i] = d] /\ page' = [page EXCEPT ![t] = q]
       /\ UNCHANGED <<observer, log, rows, ran, sessions, history, typed, confirms>>
  BY <1>2, <1>8, <1>10, <1>8a
<1>12. CASE last
  <2>1. d \in Running /\ d.at = "idle" /\ d.gate = 0 /\ d.click = 0
    BY <1>10, <1>12, IdleType, IdleFields
  <2>2. /\ Fits(d, t, ran) /\ ~Live(d) /\ Permit(d) = 0 /\ ~Gives(d)
        /\ HoldsScript(d, t, ran, n)
    BY <2>1, IdleFits
  <2>3. q.pending = None /\ q.bypass = None
    BY <1>2, <1>3, <1>4, <1>5, <1>9, <1>12 DEF Serves
  <2>4. Talk(q, ran)
    <3>1. CASE c.at = "new"
      <4>1. q.messages = <<>>
        BY <1>3, <1>4, <1>5, <1>9, <1>12, <3>1 DEF Serves
      <4> QED
        BY <4>1, <2>3, EmptyPage
    <3>2. CASE c.at = "resume"
      <4>1. q.messages = Shown(p.session, c.read)
        BY <1>5, <1>9, <1>12, <3>2 DEF m
      <4> QED
        BY <4>1, <1>1, <1>4, <1>9, ShownTalks
    <3> QED
      BY <1>2, <3>1, <3>2
  <2>5. Proposed(q, ran) /\ HoldsPage(t, q, ran, n) /\ OnPage(q) = 0
    BY <2>3 DEF Proposed, HoldsPage, OnPage
  <2>6. Moves(t, c, d, p, q, ran, n)
    BY <1>3, <2>2, <2>4, <2>5 DEF Moves
  <2>7. Reads(d, q, history) /\ d.at \notin HasRun /\ d.at # "opened"
    BY <2>1 DEF Reads, HasRun, InGraph
  <2> QED
    BY <1>1, <1>3, <1>9, <1>11, <2>1, <2>2, <2>6, <2>7, PageStep
<1>13. CASE ~last
  <2>1. /\ d \in Running /\ d.at = c.at /\ d.stopped = c.stopped
        /\ d.trigger = c.trigger /\ d.confirm = c.confirm /\ d.step = c.step + 1
        /\ d.read = c.read /\ d.gate = c.gate /\ d.click = c.click
    <3>1. d = Stepped(c, c.read)
      BY <1>10, <1>13
    <3> QED
      BY <3>1, <1>1, <1>4, SteppedType
  <2>2. q.torn
    BY <1>8, <1>9, <1>13
  <2>3. Fits(d, t, ran)
    BY <1>1, <1>2, <1>3, <1>4, <1>5, <1>13, <2>1, NameAssumption
       DEF Fits, InGraph, HasRun, Prompted, Asking
  <2>4. Serves(d, q)
    BY <1>2, <1>3, <1>4, <1>5, <1>6, <1>9, <2>1, <2>2
       DEF Serves, Switching, Prompted, Asking, InGraph, Waiting
  <2>5. Talk(q, ran)
    <3>1. CASE key = "messages"
      <4>1. q.messages = <<>>
        BY <1>2, <1>4, <1>5, <1>6, <1>9, <1>13, <3>1
      <4>2. \A k \in DOMAIN q.messages : FALSE
        BY <4>1
      <4> QED
        BY <4>2 DEF Talk
    <3>2. CASE key # "messages"
      BY <1>1, <1>9, <2>2, <3>2, TalkSame
    <3> QED
      BY <3>1, <3>2
  <2>6. Proposed(q, ran) /\ HoldsPage(t, q, ran, n) /\ OnPage(q) \in {0, OnPage(p)}
    BY <1>1, <1>9, <2>2 DEF Proposed, HoldsPage, OnPage, Unasked
  <2>7. HoldsScript(d, t, ran, n) /\ (Gives(d) => Gives(c)) /\ Permit(d) = 0
    BY <1>1, <1>2, <1>3, <2>1, Carries DEF Asking
  <2>8. Moves(t, c, d, p, q, ran, n)
    BY <1>3, <2>4, <2>5, <2>6, <2>7 DEF Moves
  <2>9. Reads(d, q, history) /\ d.at \notin HasRun /\ d.at # "opened"
    BY <1>2, <1>4, <1>9, <2>1 DEF Reads, HasRun, InGraph
  <2> QED
    BY <1>1, <1>3, <1>9, <1>11, <2>1, <2>3, <2>8, <2>9, PageStep
<1> QED
  BY <1>12, <1>13

-----------------------------------------------------------------------------
(* The prompt of a script.                                                    *)

\* What the lemmas below know of script i of tab t and of its page.
LEMMA Known ==
  ASSUME CInv, NEW t \in Tab, NEW i \in Script
  PROVE  LET c == script[t][i]
             p == page[t]
             n == confirms[t]
         IN /\ t \in Actor /\ p \in Page /\ p.session \in Session
            /\ Talk(p, ran) /\ Proposed(p, ran) /\ HoldsPage(t, p, ran, n)
            /\ HoldsScript(c, t, ran, n) /\ Apart(script[t], p, n)
            /\ c \in Running /\ Fits(c, t, ran)
            /\ page \in [Actor -> Page] /\ script \in [Actor -> [Script -> Running]]
            /\ c.at \notin InGraph \cup {"idle"} => Live(c) /\ Serves(c, p) /\ ~c.stopped
BY PromptOfPage, OwnScript, LiveAt DEF CInv, Types

Taken(c, at, p, g, k) ==
  [c EXCEPT !.at = at, !.typed = None, !.prompt = p, !.gate = g, !.click = k]

LEMMA TakenType ==
  ASSUME NEW c \in Running, NEW at \in {"saying", "obsoleting"}, NEW p \in Prompt,
         NEW g \in Nat, NEW k \in Nat, NEW d, d = Taken(c, at, p, g, k)
  PROVE  /\ d \in Running /\ d.at = at /\ d.stopped = c.stopped
         /\ d.trigger = c.trigger /\ d.confirm = c.confirm
         /\ d.prompt = p /\ d.gate = g /\ d.click = k
BY DEF Taken, Running, At

\* A script that is past the sidebar takes a prompt that needs no permission.
LEMMA TakeKeeps ==
  ASSUME CInv, NEW t \in Tab, NEW i \in Script, script[t][i].at = "top",
         page[t].bypass = None,
         NEW at \in {"saying", "obsoleting"}, NEW x \in Prompt,
         script' = [script EXCEPT ![t][i] = Taken(@, at, x, 0, 0)],
         NEW q \in Page, page' = [page EXCEPT ![t] = q],
         q.session = page[t].session, q.messages = page[t].messages,
         q.torn = page[t].torn, q.bypass = None,
         q.pending \in {page[t].pending, None}, at = "saying" => q.pending = None,
         UNCHANGED <<observer, log, rows, ran, sessions, history, typed, confirms>>
  PROVE  CInv'
<1> DEFINE c == script[t][i]
           p == page[t]
           n == confirms[t]
<1>1. /\ p.session \in Session /\ Talk(p, ran) /\ Proposed(p, ran)
      /\ HoldsPage(t, p, ran, n) /\ HoldsScript(c, t, ran, n)
      /\ c \in Running /\ Live(c) /\ Serves(c, p) /\ ~c.stopped
  BY Known DEF InGraph
<1>2. PICK d : d = Taken(c, at, x, 0, 0)
  OBVIOUS
<1>3. /\ d \in Running /\ d.at = at /\ ~d.stopped
      /\ d.trigger = c.trigger /\ d.confirm = c.confirm
      /\ d.prompt = x /\ d.gate = 0 /\ d.click = 0
  <2>1. 0 \in Nat
    OBVIOUS
  <2> QED
    BY <1>1, <1>2, <2>1, TakenType
<1>4. Fits(d, t, ran)
  BY <1>3, NameAssumption DEF Fits, InGraph, HasRun, Prompted, Asking
<1>5. Serves(d, q)
  BY <1>3 DEF Serves, Switching, Prompted, Asking, InGraph, Waiting, Unasked
<1>6. /\ Talk(q, ran) /\ Proposed(q, ran) /\ HoldsPage(t, q, ran, n)
      /\ OnPage(q) \in {0, OnPage(p)}
  BY <1>1, PageSame
<1>7. HoldsScript(d, t, ran, n) /\ (Gives(d) => Gives(c)) /\ Permit(d) = 0
  BY <1>1, <1>3, Carries
<1>8. Moves(t, c, d, p, q, ran, n)
  BY <1>1, <1>5, <1>6, <1>7 DEF Moves
<1>9. Reads(d, q, history) /\ d.at \notin HasRun /\ d.at # "opened"
  BY <1>3 DEF Reads, HasRun, InGraph
<1>10. script' = [script EXCEPT ![t][i] = d]
  BY <1>2
<1> QED
  BY <1>1, <1>3, <1>4, <1>8, <1>9, <1>10, PageStep

LEMMA TakeBypassKeeps ==
  ASSUME CInv, NEW t \in Tab, NEW i \in Script, TakeBypass(t, i)
  PROVE  CInv'
<1> DEFINE c == script[t][i]
           p == page[t]
           n == confirms[t]
           b == p.bypass
<1>1. /\ p \in Page /\ p.session \in Session /\ Talk(p, ran) /\ Proposed(p, ran)
      /\ HoldsPage(t, p, ran, n) /\ HoldsScript(c, t, ran, n)
      /\ Apart(script[t], p, n) /\ c \in Running
  BY Known
<1>2. /\ c.at = "top" /\ b # None
      /\ page' = [page EXCEPT ![t].bypass = None]
      /\ script' = [script EXCEPT ![t][i] = Taken(c, "saying", b.prompt, b.gate, b.click)]
      /\ UNCHANGED <<observer, log, rows, ran, sessions, history, typed, confirms>>
  BY DEF TakeBypass, Untriggered, Taken, runLog, input
<1>3. Live(c) /\ Serves(c, p) /\ ~c.stopped
  BY <1>2, Known DEF InGraph
<1>4. /\ b.prompt \in Prompt /\ b.gate \in Nat /\ b.gate # 0 /\ b.click \in Nat
      /\ OnPage(p) = b.click /\ b.click # 0
  BY <1>1, <1>2 DEF Page, Bypass, Run, OnPage
<1>4a. PICK at \in {"saying", "obsoleting"}, x \in Prompt, g \in Nat, k \in Nat :
         at = "saying" /\ x = b.prompt /\ g = b.gate /\ k = b.click
  BY <1>4
<1>5. PICK d : d = Taken(c, at, x, g, k)
  OBVIOUS
<1>6. /\ d \in Running /\ d.at = "saying" /\ ~d.stopped
      /\ d.trigger = c.trigger /\ d.confirm = c.confirm
      /\ d.prompt = b.prompt /\ d.gate = b.gate /\ d.click = b.click
  <2>1. /\ d \in Running /\ d.at = at /\ d.stopped = c.stopped
        /\ d.trigger = c.trigger /\ d.confirm = c.confirm
        /\ d.prompt = x /\ d.gate = g /\ d.click = k
    BY <1>1, <1>5, TakenType
  <2> QED
    BY <1>3, <1>4a, <2>1
<1>7. PICK q : q = [p EXCEPT !.bypass = None]
  OBVIOUS
<1>8. /\ q \in Page /\ q.session = p.session /\ q.messages = p.messages /\ q.torn = p.torn
      /\ q.bypass = None /\ q.pending = p.pending
  BY <1>1, <1>7 DEF Page
<1>9. script' = [script EXCEPT ![t][i] = d] /\ page' = [page EXCEPT ![t] = q]
  BY <1>2, <1>4a, <1>5, <1>7
<1>10. Fits(d, t, ran)
  BY <1>4, <1>6, NameAssumption DEF Fits, InGraph, HasRun, Prompted, Asking
<1>11. Serves(d, q)
  BY <1>1, <1>2, <1>6, <1>8
     DEF Serves, Switching, Prompted, Asking, InGraph, Waiting, Proposed, Unasked
<1>12. /\ Talk(q, ran) /\ Proposed(q, ran) /\ HoldsPage(t, q, ran, n) /\ OnPage(q) = 0
  <2>1. OnPage(q) = 0
    BY <1>8 DEF OnPage
  <2> QED
    BY <2>1, <1>1, <1>8, PageSame
<1>13. Permit(d) = OnPage(p) /\ Permit(d) # 0 /\ (Gives(d) => Gives(c))
  BY <1>2, <1>3, <1>4, <1>6 DEF Permit, Asking, Gives
<1>14. HoldsScript(d, t, ran, n)
  <2>1. OnPage(p) \in 1..n /\ Unused(OnPage(p), t, ran) /\ Gated(b.gate, t, b.prompt, ran)
    BY <1>1, <1>2 DEF HoldsPage
  <2>2. Gives(c) => OnPage(p) # n
    BY <1>1 DEF Apart
  <2>3. Gives(c) => c.confirm = n /\ n # 0 /\ Unused(n, t, ran)
    BY <1>1 DEF HoldsScript
  <2> QED
    BY <1>4, <1>6, <1>13, <2>1, <2>2, <2>3 DEF HoldsScript
<1>15. Moves(t, c, d, p, q, ran, n)
  BY <1>3, <1>11, <1>12, <1>13, <1>14 DEF Moves
<1>16. Reads(d, q, history) /\ d.at \notin HasRun /\ d.at # "opened"
  BY <1>6 DEF Reads, HasRun, InGraph
<1> QED
  BY <1>1, <1>2, <1>3, <1>6, <1>8, <1>9, <1>10, <1>15, <1>16, PageStep

LEMMA TakeCardKeeps ==
  ASSUME CInv, NEW t \in Tab, NEW i \in Script, TakeCard(t, i)
  PROVE  CInv'
<1> DEFINE c == script[t][i]
           p == page[t]
<1>1. /\ p \in Page /\ c \in Running /\ Fits(c, t, ran)
      /\ script \in [Actor -> [Script -> Running]]
  BY Known
<1>2. /\ c.at = "top" /\ p.bypass = None /\ p.card # None
      /\ page' = [page EXCEPT ![t].card = None]
      /\ script' = [script EXCEPT ![t][i] =
           [@ EXCEPT !.at = "obsoleting", !.typed = None, !.prompt = p.card]]
      /\ UNCHANGED <<observer, log, rows, ran, sessions, history, typed, confirms>>
  BY DEF TakeCard, Untriggered, runLog, input
<1>3. p.card \in Prompt
  BY <1>1, <1>2 DEF Page
<1>4. c.gate = 0 /\ c.click = 0
  BY <1>1, <1>2 DEF Fits, Prompted, Asking, InGraph
<1>5. [c EXCEPT !.at = "obsoleting", !.typed = None, !.prompt = p.card]
        = Taken(c, "obsoleting", p.card, 0, 0)
  BY <1>1, <1>4 DEF Taken, Running
<1>6. PICK q : q = [p EXCEPT !.card = None]
  OBVIOUS
<1>7. /\ q \in Page /\ q.session = p.session /\ q.messages = p.messages /\ q.torn = p.torn
      /\ q.bypass = None /\ q.pending \in {p.pending, None}
  BY <1>1, <1>2, <1>6 DEF Page
<1>8. page' = [page EXCEPT ![t] = q]
  BY <1>2, <1>6
<1>9. PICK at \in {"saying", "obsoleting"}, x \in Prompt :
        /\ at = "obsoleting" /\ x = p.card
        /\ script' = [script EXCEPT ![t][i] = Taken(c, at, x, 0, 0)]
  BY <1>2, <1>3, <1>5
<1>10. at = "saying" => q.pending = None
  BY <1>7, <1>9
<1>11. /\ CInv /\ t \in Tab /\ i \in Script /\ c.at = "top" /\ p.bypass = None
       /\ UNCHANGED <<observer, log, rows, ran, sessions, history, typed, confirms>>
       /\ q.pending \in {p.pending, None}
  BY <1>2, <1>7
<1> QED
  BY ONLY <1>7, <1>8, <1>9, <1>10, <1>11, TakeKeeps

LEMMA TakeTypedKeeps ==
  ASSUME CInv, NEW t \in Tab, NEW i \in Script, TakeTyped(t, i)
  PROVE  CInv'
<1> DEFINE c == script[t][i]
           p == page[t]
<1>1. /\ p \in Page /\ c \in Running /\ Fits(c, t, ran)
      /\ script \in [Actor -> [Script -> Running]]
  BY Known
<1>2. /\ c.at = "top" /\ p.bypass = None /\ c.trigger = "type"
      /\ page' = [page EXCEPT ![t].pending = None]
      /\ script' = [script EXCEPT ![t][i] =
           [@ EXCEPT !.at = "saying", !.typed = None, !.prompt = c.typed]]
      /\ UNCHANGED <<observer, log, rows, ran, sessions, history, typed, confirms>>
  BY DEF TakeTyped, Untriggered, runLog, input
<1>3. c.typed \in Prompt /\ c.gate = 0 /\ c.click = 0
  BY <1>1, <1>2 DEF Fits, Prompted, Asking, InGraph
<1>5. [c EXCEPT !.at = "saying", !.typed = None, !.prompt = c.typed]
        = Taken(c, "saying", c.typed, 0, 0)
  BY <1>1, <1>3 DEF Taken, Running
<1>6. PICK q : q = [p EXCEPT !.pending = None]
  OBVIOUS
<1>7. /\ q \in Page /\ q.session = p.session /\ q.messages = p.messages /\ q.torn = p.torn
      /\ q.bypass = None /\ q.pending = None
  BY <1>1, <1>2, <1>6 DEF Page
<1>8. page' = [page EXCEPT ![t] = q]
  BY <1>2, <1>6
<1>9. PICK at \in {"saying", "obsoleting"}, x \in Prompt :
        /\ at = "saying" /\ x = c.typed
        /\ script' = [script EXCEPT ![t][i] = Taken(c, at, x, 0, 0)]
  BY <1>2, <1>3, <1>5
<1>10. at = "saying" => q.pending = None
  BY <1>7, <1>9
<1>11. /\ CInv /\ t \in Tab /\ i \in Script /\ c.at = "top" /\ p.bypass = None
       /\ UNCHANGED <<observer, log, rows, ran, sessions, history, typed, confirms>>
       /\ q.pending \in {p.pending, None}
  BY <1>2, <1>7
<1> QED
  BY ONLY <1>7, <1>8, <1>9, <1>10, <1>11, TakeKeeps

Placed(c, at) == [c EXCEPT !.at = at]

LEMMA PlacedType ==
  ASSUME NEW c \in Running, NEW at \in At, NEW d, d = Placed(c, at)
  PROVE  /\ d \in Running /\ d.at = at /\ d.stopped = c.stopped
         /\ d.trigger = c.trigger /\ d.confirm = c.confirm /\ d.typed = c.typed
         /\ d.prompt = c.prompt /\ d.gate = c.gate /\ d.click = c.click
         /\ d.session = c.session /\ d.run = c.run /\ d.outcome = c.outcome
BY DEF Placed, Running

\* A script with a prompt goes on with it.
LEMMA AskingOn ==
  ASSUME CInv, NEW t \in Tab, NEW i \in Script, script[t][i].at \in {"obsoleting", "saying"},
         NEW at \in {"saying", "asked"}, Go(t, i, at),
         NEW q \in Page, page' = [page EXCEPT ![t] = q],
         q.session = page[t].session, q.bypass = page[t].bypass,
         q.pending \in {page[t].pending, None}, Unasked(q),
         Talk(q, ran), Proposed(q, ran),
         at = "asked" => /\ q.messages # <<>>
                         /\ Last(q.messages) = User(script[t][i].prompt, q.session),
         UNCHANGED <<observer, log, rows, ran, sessions, history, typed, confirms>>
  PROVE  CInv'
<1> DEFINE c == script[t][i]
           p == page[t]
           n == confirms[t]
<1>1. /\ p.session \in Session /\ HoldsPage(t, p, ran, n) /\ HoldsScript(c, t, ran, n)
      /\ c \in Running /\ Live(c) /\ Serves(c, p) /\ ~c.stopped /\ Fits(c, t, ran)
      /\ Apart(script[t], p, n)
  BY Known DEF InGraph
<1>2. PICK d : d = Placed(c, at)
  OBVIOUS
<1>3. /\ d \in Running /\ d.at = at /\ ~d.stopped
      /\ d.trigger = c.trigger /\ d.confirm = c.confirm
      /\ d.prompt = c.prompt /\ d.gate = c.gate /\ d.click = c.click
  <2>1. at \in At
    BY DEF At
  <2> QED
    BY <1>1, <1>2, <2>1, PlacedType
<1>4. Fits(d, t, ran)
  BY <1>1, <1>3, NameAssumption DEF Fits, InGraph, HasRun, Prompted, Asking
<1>5. Serves(d, q)
  BY <1>1, <1>3 DEF Serves, Switching, Prompted, Asking, InGraph, Waiting
<1>6. HoldsPage(t, q, ran, n) /\ OnPage(q) = OnPage(p)
  BY <1>1 DEF HoldsPage, OnPage
<1>7. Permit(d) = Permit(c) /\ (Gives(d) <=> Gives(c)) /\ HoldsScript(d, t, ran, n)
  <2>1. Permit(d) = Permit(c) /\ (Gives(d) <=> Gives(c))
    BY <1>1, <1>3 DEF Permit, Asking, Gives, Live
  <2> QED
    BY <1>1, <1>3, <2>1 DEF HoldsScript, Asking
<1>8. Permit(d) # 0 => Permit(d) # OnPage(q)
  BY <1>1, <1>6, <1>7 DEF Apart
<1>9. Moves(t, c, d, p, q, ran, n)
  BY <1>1, <1>5, <1>6, <1>7, <1>8 DEF Moves
<1>10. Reads(d, q, history) /\ d.at \notin HasRun /\ d.at # "opened"
  BY <1>3 DEF Reads, HasRun, InGraph
<1>11. script' = [script EXCEPT ![t][i] = d]
  BY <1>2 DEF Go, Placed
<1> QED
  BY <1>1, <1>3, <1>4, <1>9, <1>10, <1>11, PageStep

LEMMA ObsoleteKeeps ==
  ASSUME CInv, NEW t \in Tab, NEW i \in Script, Obsolete(t, i)
  PROVE  CInv'
<1> DEFINE c == script[t][i]
           p == page[t]
<1>1. /\ c.at \in {"obsoleting", "saying"} /\ Go(t, i, "saying")
      /\ page' = [page EXCEPT ![t].pending = None]
      /\ UNCHANGED <<observer, log, rows, ran, sessions, history, typed, confirms>>
  BY DEF Obsolete, runLog, input
<1>2. /\ p \in Page /\ Talk(p, ran) /\ Proposed(p, ran)
      /\ HoldsPage(t, p, ran, confirms[t])
  BY Known
<1>3. PICK at \in {"saying", "asked"} : at = "saying"
  OBVIOUS
<1>4. PICK q : q = [p EXCEPT !.pending = None]
  OBVIOUS
<1>5. /\ q \in Page /\ q.session = p.session /\ q.messages = p.messages /\ q.torn = p.torn
      /\ q.bypass = p.bypass /\ q.pending = None
  BY <1>2, <1>4 DEF Page
<1>6. Talk(q, ran) /\ Proposed(q, ran) /\ Unasked(q)
  BY <1>2, <1>5, TalkSame DEF Proposed, Unasked
<1>7. page' = [page EXCEPT ![t] = q]
  BY <1>1, <1>4
<1>8. Go(t, i, at) /\ at # "asked"
  BY <1>1, <1>3
<1> QED
  BY <1>1, <1>5, <1>6, <1>7, <1>8, AskingOn

\* A message is added at the end.
LEMMA Appended ==
  ASSUME NEW m \in Seq(Message), NEW x \in Message
  PROVE  LET m2 == Append(m, x)
         IN /\ m2 \in Seq(Message) /\ m2 # <<>> /\ Last(m2) = x
            /\ Len(m) \in Nat /\ Len(m2) = Len(m) + 1 /\ m2[Len(m) + 1] = x
            /\ DOMAIN m = 1..Len(m) /\ DOMAIN m2 = 1..(Len(m) + 1)
            /\ \A k \in DOMAIN m : m2[k] = m[k]
<1> DEFINE m2 == Append(m, x)
<1>1. /\ m2 \in Seq(Message) /\ m2 # <<>> /\ Len(m2) = Len(m) + 1
      /\ \A k \in 1..Len(m) : m2[k] = m[k]
      /\ m2[Len(m) + 1] = x
  BY AppendProperties
<1>2. Len(m) \in Nat /\ DOMAIN m = 1..Len(m) /\ DOMAIN m2 = 1..(Len(m) + 1)
  BY <1>1
<1> QED
  BY <1>1, <1>2 DEF Last

\* A message that fits goes under a conversation.
LEMMA TalkGoesOn ==
  ASSUME NEW p, NEW q, NEW R, NEW x \in Message,
         p.messages \in Seq(Message), q.messages = Append(p.messages, x),
         q.session = p.session, q.torn = p.torn, x.session = p.session,
         Talk(p, R),
         x.role = "assistant" =>
           /\ p.messages # <<>> /\ Last(p.messages) = User(x.prompt, x.session)
           /\ x.run \in DOMAIN R
           /\ R[x.run].prompt = x.prompt /\ R[x.run].session = x.session
  PROVE  Talk(q, R)
<1> DEFINE m == p.messages
           n == Len(m)
<1>1. /\ q.messages[n + 1] = x /\ n \in Nat
      /\ DOMAIN m = 1..n /\ DOMAIN q.messages = 1..(n + 1)
      /\ \A k \in 1..n : q.messages[k] = m[k]
  BY Appended
<1>2. m # <<>> => n >= 1 /\ Last(m) = m[n]
  BY DEF Last
<1> SUFFICES ASSUME NEW k \in 1..(n + 1)
             PROVE  /\ ~q.torn => q.messages[k].session = q.session
                    /\ q.messages[k].role = "assistant" =>
                         /\ k > 1
                         /\ q.messages[k - 1]
                              = User(q.messages[k].prompt, q.messages[k].session)
                         /\ q.messages[k].run \in DOMAIN R
                         /\ R[q.messages[k].run].prompt = q.messages[k].prompt
                         /\ R[q.messages[k].run].session = q.messages[k].session
  BY <1>1 DEF Talk
<1>3. CASE k \in 1..n
  <2>1. /\ ~p.torn => m[k].session = p.session
        /\ m[k].role = "assistant" =>
             /\ k > 1 /\ m[k - 1] = User(m[k].prompt, m[k].session)
             /\ m[k].run \in DOMAIN R
             /\ R[m[k].run].prompt = m[k].prompt /\ R[m[k].run].session = m[k].session
    BY <1>1, <1>3 DEF Talk
  <2>2. k > 1 => k - 1 \in 1..n
    BY <1>1, <1>3
  <2> QED
    BY <1>1, <1>3, <2>1, <2>2
<1>4. CASE k = n + 1
  <2>1. m # <<>> => q.messages[k - 1] = Last(m) /\ k > 1
    BY <1>1, <1>2, <1>4
  <2> QED
    BY <1>1, <1>4, <2>1
<1> QED
  BY <1>1, <1>3, <1>4

LEMMA SaidType ==
  ASSUME NEW p \in Page, NEW x \in Message, NEW q, q = [p EXCEPT !.messages = Append(@, x)]
  PROVE  /\ q \in Page /\ q.session = p.session /\ q.torn = p.torn
         /\ q.messages = Append(p.messages, x) /\ q.messages \in Seq(Message)
         /\ p.messages \in Seq(Message) /\ q.messages # <<>> /\ Last(q.messages) = x
         /\ q.bypass = p.bypass /\ q.pending = p.pending
<1>1. p.messages \in Seq(Message)
  BY DEF Page
<1>2. PICK m : m = Append(p.messages, x)
  OBVIOUS
<1>3. m \in Seq(Message) /\ m # <<>> /\ Last(m) = x
  BY <1>1, <1>2, Appended
<1>4. q = [p EXCEPT !.messages = m]
  BY <1>2
<1> QED
  BY <1>1, <1>2, <1>3, <1>4 DEF Page

LEMMA SayKeeps ==
  ASSUME CInv, NEW t \in Tab, NEW i \in Script, Say(t, i)
  PROVE  CInv'
<1> DEFINE c == script[t][i]
           p == page[t]
<1>1. /\ c.at = "saying" /\ Go(t, i, "asked")
      /\ page' = [page EXCEPT ![t].messages = Append(@, User(c.prompt, p.session))]
      /\ UNCHANGED <<observer, log, rows, ran, sessions, history, typed, confirms>>
  BY DEF Say, runLog, input
<1>2. /\ p \in Page /\ Talk(p, ran) /\ Proposed(p, ran) /\ p.session \in Session
      /\ Serves(c, p) /\ Fits(c, t, ran)
  BY <1>1, Known DEF InGraph
<1>3. c.prompt \in Prompt /\ Unasked(p)
  BY <1>1, <1>2 DEF Fits, Serves, Prompted, Asking
<1>4. PICK x : x = User(c.prompt, p.session)
  OBVIOUS
<1>5. x \in Message /\ x.role = "user" /\ x.prompt = c.prompt /\ x.session = p.session
  BY <1>2, <1>3, <1>4, UserType
<1>6. PICK q : q = [p EXCEPT !.messages = Append(@, x)]
  OBVIOUS
<1>7. /\ q \in Page /\ q.session = p.session /\ q.torn = p.torn
      /\ q.messages = Append(p.messages, x) /\ q.messages \in Seq(Message)
      /\ p.messages \in Seq(Message) /\ q.messages # <<>> /\ Last(q.messages) = x
      /\ q.bypass = p.bypass /\ q.pending = p.pending
  BY <1>2, <1>5, <1>6, SaidType
<1>8. Unasked(q) /\ Proposed(q, ran)
  BY <1>3, <1>7 DEF Unasked, Proposed
<1>9. x.role # "assistant"
  BY <1>5
<1>10. Talk(q, ran)
  BY <1>2, <1>5, <1>7, <1>9, TalkGoesOn
<1>11. page' = [page EXCEPT ![t] = q]
  BY <1>1, <1>4, <1>6
<1>12. PICK at \in {"saying", "asked"} : at = "asked"
  OBVIOUS
<1>13. /\ Go(t, i, at) /\ c.at \in {"obsoleting", "saying"}
       /\ Last(q.messages) = User(c.prompt, q.session)
       /\ q.pending \in {p.pending, None}
  BY <1>1, <1>4, <1>7, <1>12
<1> QED
  BY <1>1, <1>7, <1>8, <1>10, <1>11, <1>13, AskingOn

LEMMA RerunType ==
  /\ Rerun \in Running /\ Rerun.at = "top" /\ ~Rerun.stopped /\ Rerun.trigger = "none"
  /\ Rerun.gate = 0 /\ Rerun.click = 0
BY DEF Rerun, Idle, Running, At, Trigger

\* st.rerun(): the next script, for which nothing was clicked.
LEMMA RerunFits ==
  ASSUME NEW c, NEW t \in Tab, NEW R, NEW n, HoldsScript(c, t, R, n), NEW q
  PROVE  /\ Fits(Rerun, t, R) /\ Serves(Rerun, q) /\ HoldsScript(Rerun, t, R, n)
         /\ ~Gives(Rerun) /\ Permit(Rerun) = 0
<1>1. Fits(Rerun, t, R)
  BY RerunType, NameAssumption DEF Fits, InGraph, HasRun, Prompted, Asking
<1>2. Serves(Rerun, q)
  BY RerunType DEF Serves, Switching, Prompted, Asking, InGraph, Waiting
<1>3. ~Gives(Rerun) /\ Permit(Rerun) = 0
  BY RerunType DEF Gives, Permit, Asking
<1>4. HoldsScript(Rerun, t, R, n)
  BY <1>3, RerunType DEF HoldsScript, Asking
<1> QED
  BY <1>1, <1>2, <1>3, <1>4

\* A script with no run and no prompt goes on as d, and its page as q.
LEMMA AloneOn ==
  ASSUME CInv, NEW t \in Tab, NEW i \in Script,
         script[t][i].at \notin InGraph \cup {"idle"},
         NEW d \in Running, d.at \in {"idle", "top", "panel"},
         script' = [script EXCEPT ![t][i] = d],
         Fits(d, t, ran), Live(d) => Serves(d, page'[t]),
         HoldsScript(d, t, ran, confirms[t]), Gives(d) => Gives(script[t][i]),
         Permit(d) = 0,
         NEW q \in Page, page' = [page EXCEPT ![t] = q],
         q.session = page[t].session, OnPage(q) = OnPage(page[t]),
         Talk(q, ran), Proposed(q, ran), HoldsPage(t, q, ran, confirms[t]),
         UNCHANGED <<observer, log, rows, ran, sessions, history, typed, confirms>>
  PROVE  CInv'
<1>1. /\ Live(script[t][i]) /\ page[t].session \in Session /\ t \in Actor
      /\ page \in [Actor -> Page]
  BY Known
<1>2. page'[t] = q
  BY <1>1
<1>3. Moves(t, script[t][i], d, page[t], q, ran, confirms[t])
  BY <1>1, <1>2 DEF Moves
<1>4. Reads(d, q, history) /\ d.at \notin HasRun /\ d.at # "opened"
  BY DEF Reads, HasRun, InGraph
<1> QED
  BY <1>1, <1>3, <1>4, PageStep

LEMMA UnpromptedKeeps ==
  ASSUME CInv, NEW t \in Tab, NEW i \in Script, Unprompted(t, i)
  PROVE  CInv'
<1> DEFINE c == script[t][i]
           p == page[t]
           n == confirms[t]
<1>1. /\ c.at = "top" /\ p.bypass = None
      /\ UNCHANGED <<observer, log, rows, ran, sessions, history, typed, confirms>>
  BY DEF Unprompted, Untriggered, runLog, input
<1>2. /\ p \in Page /\ p.session \in Session /\ Talk(p, ran) /\ Proposed(p, ran)
      /\ HoldsPage(t, p, ran, n) /\ HoldsScript(c, t, ran, n) /\ c \in Running
      /\ Fits(c, t, ran) /\ Live(c) /\ page \in [Actor -> Page] /\ t \in Actor
  BY <1>1, Known DEF InGraph
<1>3. CASE /\ c.trigger = "card"
           /\ page' = [page EXCEPT ![t].card = c.typed]
           /\ script' = [script EXCEPT ![t][i] = Rerun]
  <2>1. c.typed \in Prompt
    BY <1>1, <1>2, <1>3 DEF Fits
  <2>2. PICK q : q = [p EXCEPT !.card = c.typed]
    OBVIOUS
  <2>3. /\ q \in Page /\ q.session = p.session /\ q.messages = p.messages
        /\ q.torn = p.torn /\ q.bypass = p.bypass /\ q.pending = p.pending
    BY <1>2, <2>1, <2>2 DEF Page
  <2>4. page' = [page EXCEPT ![t] = q]
    BY <1>3, <2>2
  <2>5. Talk(q, ran) /\ Proposed(q, ran) /\ HoldsPage(t, q, ran, n)
    BY <1>2, <2>3, PageSame
  <2>6. OnPage(q) = OnPage(p)
    BY <2>3 DEF OnPage
  <2>7. /\ Fits(Rerun, t, ran) /\ Serves(Rerun, page'[t])
        /\ HoldsScript(Rerun, t, ran, n) /\ ~Gives(Rerun) /\ Permit(Rerun) = 0
    BY <1>2, RerunFits
  <2>8. PICK d : d = Rerun
    OBVIOUS
  <2>9. /\ d \in Running /\ d.at \in {"idle", "top", "panel"}
        /\ script' = [script EXCEPT ![t][i] = d]
        /\ Fits(d, t, ran) /\ Serves(d, page'[t]) /\ HoldsScript(d, t, ran, n)
        /\ ~Gives(d) /\ Permit(d) = 0
    BY <1>3, <2>7, <2>8, RerunType
  <2>10. c.at \notin InGraph \cup {"idle"}
    BY <1>1 DEF InGraph
  <2> QED
    BY <1>1, <2>3, <2>4, <2>5, <2>6, <2>9, <2>10, AloneOn
<1>4. CASE script' = [script EXCEPT ![t][i] = Onward(c, p.pending)] /\ UNCHANGED page
  <2>1. PICK d : d = Onward(c, p.pending)
    OBVIOUS
  <2>2. /\ d \in Running /\ d.at \in {"idle", "panel"}
        /\ Fits(d, t, ran) /\ (Live(d) => Serves(d, p))
        /\ HoldsScript(d, t, ran, n) /\ (Gives(d) => Gives(c)) /\ Permit(d) = 0
    <3>1. c.at # "confirming"
      BY <1>1
    <3> QED
      BY <1>2, <2>1, <3>1, OnwardType
  <2>3. script' = [script EXCEPT ![t][i] = d]
    BY <1>4, <2>1
  <2>4. page' = [page EXCEPT ![t] = p] /\ page'[t] = p
    BY <1>2, <1>4
  <2>5. c.at \notin InGraph \cup {"idle"}
    BY <1>1 DEF InGraph
  <2> QED
    BY <1>1, <1>2, <2>2, <2>3, <2>4, <2>5, AloneOn
<1> QED
  BY <1>3, <1>4 DEF Unprompted

LEMMA AnswerKeeps ==
  ASSUME CInv, NEW t \in Tab, NEW i \in Script, Answer(t, i)
  PROVE  CInv'
<1> DEFINE c == script[t][i]
           p == page[t]
           n == confirms[t]
<1>1. /\ c.at = "answered" /\ c.at \in HasRun
      /\ page' = [page EXCEPT ![t].messages =
           Append(@, Assistant(c.prompt, c.session, c.run, c.outcome))]
      /\ script' = [script EXCEPT ![t][i] =
           IF c.outcome = "gated" THEN [@ EXCEPT !.at = "proposing"]
           ELSE Onward(c, p.pending)]
      /\ UNCHANGED <<observer, log, rows, ran, sessions, history, typed, confirms>>
  BY DEF Answer, runLog, input, HasRun, InGraph
<1>2. /\ p \in Page /\ p.session \in Session /\ Talk(p, ran) /\ Proposed(p, ran)
      /\ HoldsPage(t, p, ran, n) /\ HoldsScript(c, t, ran, n) /\ c \in Running
      /\ Fits(c, t, ran) /\ Live(c) /\ Serves(c, p) /\ ~c.stopped
      /\ page \in [Actor -> Page] /\ t \in Actor
  BY <1>1, Known DEF InGraph
<1>3. /\ c.prompt \in Prompt /\ c.session \in Session /\ c.run \in DOMAIN ran
      /\ ran[c.run].prompt = c.prompt /\ ran[c.run].session = c.session
      /\ c.run \in Run
  BY <1>1, OwnRun DEF Actor
<1>4. /\ c.outcome \in Outcome /\ (c.outcome = "gated" => ran[c.run].outcome = "gated")
      /\ c.run \in Nat
  BY <1>1, <1>2, <1>3 DEF Fits, Run
<1>5. /\ p.bypass = None /\ Unasked(p) /\ c.session = p.session
      /\ p.messages # <<>> /\ Last(p.messages) = User(c.prompt, p.session)
  BY <1>1, <1>2 DEF Serves, Prompted, Asking, InGraph, Waiting
<1>6. PICK x : x = Assistant(c.prompt, c.session, c.run, c.outcome)
  OBVIOUS
<1>7. /\ x \in Message /\ x.role = "assistant" /\ x.prompt = c.prompt
      /\ x.session = c.session /\ x.run = c.run /\ x.kind = c.outcome
  BY <1>3, <1>4, <1>6, AssistantType
<1>8. PICK q : q = [p EXCEPT !.messages = Append(@, x)]
  OBVIOUS
<1>9. /\ q \in Page /\ q.session = p.session /\ q.torn = p.torn
      /\ q.messages = Append(p.messages, x) /\ q.messages \in Seq(Message)
      /\ p.messages \in Seq(Message) /\ q.messages # <<>> /\ Last(q.messages) = x
      /\ q.bypass = p.bypass /\ q.pending = p.pending
  <2>1. p \in Page /\ x \in Message /\ q = [p EXCEPT !.messages = Append(@, x)]
    BY <1>2, <1>7, <1>8
  <2> HIDE DEF p, c
  <2> QED
    BY ONLY <2>1, SaidType
<1>10. Talk(q, ran)
  <2>1. /\ x \in Message /\ p.messages \in Seq(Message)
        /\ q.messages = Append(p.messages, x)
        /\ q.session = p.session /\ q.torn = p.torn /\ x.session = p.session
        /\ Talk(p, ran) /\ p.messages # <<>>
        /\ Last(p.messages) = User(x.prompt, x.session)
        /\ x.run \in DOMAIN ran
        /\ ran[x.run].prompt = x.prompt /\ ran[x.run].session = x.session
    BY <1>2, <1>3, <1>5, <1>7, <1>9
  <2> QED
    BY ONLY <2>1, TalkGoesOn
<1>11. Proposed(q, ran) /\ Unasked(q) /\ OnPage(q) = OnPage(p)
  BY <1>5, <1>9 DEF Proposed, Unasked, OnPage
<1>12. HoldsPage(t, q, ran, n)
  BY <1>2, <1>9, <1>11 DEF HoldsPage
<1>13. page' = [page EXCEPT ![t] = q] /\ page'[t] = q
  BY <1>1, <1>2, <1>6, <1>8
<1>14. CASE c.outcome = "gated"
  <2>1. PICK at \in At : at = "proposing"
    BY DEF At
  <2>2. PICK d : d = Placed(c, at)
    OBVIOUS
  <2>3. /\ d \in Running /\ d.at = "proposing" /\ ~d.stopped
        /\ d.trigger = c.trigger /\ d.confirm = c.confirm /\ d.typed = c.typed
        /\ d.prompt = c.prompt /\ d.gate = c.gate /\ d.click = c.click
        /\ d.session = c.session /\ d.run = c.run /\ d.outcome = c.outcome
    <3>1. /\ d \in Running /\ d.at = at /\ d.stopped = c.stopped
          /\ d.trigger = c.trigger /\ d.confirm = c.confirm /\ d.typed = c.typed
          /\ d.prompt = c.prompt /\ d.gate = c.gate /\ d.click = c.click
          /\ d.session = c.session /\ d.run = c.run /\ d.outcome = c.outcome
      BY <1>2, <2>2, PlacedType
    <3> QED
      BY <1>2, <2>1, <3>1
  <2>4. script' = [script EXCEPT ![t][i] = d]
    BY <1>1, <1>14, <2>1, <2>2 DEF Placed
  <2>5. Fits(d, t, ran)
    BY <1>1, <1>2, <1>3, <1>4, <1>14, <2>3, NameAssumption
       DEF Fits, InGraph, HasRun, Prompted, Asking
  <2>6. Serves(d, q)
    BY <1>5, <1>7, <1>9, <1>11, <1>14, <2>3
       DEF Serves, Switching, Prompted, Asking, InGraph, Waiting
  <2>7. HoldsScript(d, t, ran, n) /\ (Gives(d) => Gives(c)) /\ Permit(d) = 0
    <3>1. d.at \notin Asking \cup {"bound"} /\ c.at # "confirming"
      BY <1>1, <2>3 DEF Asking
    <3> QED
      BY <1>2, <2>3, <3>1, Carries
  <2>8. Moves(t, c, d, p, q, ran, n)
    BY <1>2, <1>10, <1>11, <1>12, <2>6, <2>7 DEF Moves
  <2>9. Reads(d, q, history) /\ d.at # "opened"
    BY <2>3 DEF Reads
  <2> QED
    BY <1>1, <1>2, <1>9, <1>13, <2>3, <2>4, <2>5, <2>8, <2>9, PageStep
<1>15. CASE c.outcome # "gated"
  <2>1. PICK d : d = Onward(c, p.pending)
    OBVIOUS
  <2>2. /\ d \in Running /\ d.at \in {"idle", "panel"}
        /\ Fits(d, t, ran) /\ (Live(d) => Serves(d, q))
        /\ HoldsScript(d, t, ran, n) /\ (Gives(d) => Gives(c)) /\ Permit(d) = 0
    <3>1. c.at # "confirming" /\ d = Onward(c, q.pending)
      BY <1>1, <1>9, <2>1
    <3> QED
      BY <1>2, <1>9, <3>1, OnwardType
  <2>3. script' = [script EXCEPT ![t][i] = d]
    BY <1>1, <1>15, <2>1
  <2>4. c.at \notin InGraph \cup {"idle"}
    BY <1>1 DEF InGraph
  <2> QED
    BY <1>1, <1>2, <1>9, <1>10, <1>11, <1>12, <1>13, <2>2, <2>3, <2>4, AloneOn
<1> QED
  BY <1>14, <1>15

LEMMA PendingType ==
  ASSUME NEW p \in Page, NEW x \in Proposal \cup {None}, NEW q,
         q = [p EXCEPT !.pending = x]
  PROVE  /\ q \in Page /\ q.session = p.session /\ q.torn = p.torn
         /\ q.messages = p.messages /\ q.bypass = p.bypass /\ q.pending = x
BY DEF Page

LEMMA ProposeKeeps ==
  ASSUME CInv, NEW t \in Tab, NEW i \in Script, Propose(t, i)
  PROVE  CInv'
<1> DEFINE c == script[t][i]
           p == page[t]
           n == confirms[t]
<1>1. /\ c.at = "proposing" /\ c.at \in HasRun
      /\ page' = [page EXCEPT ![t].pending =
           [prompt |-> c.prompt, gate |-> c.run, spent |-> FALSE]]
      /\ script' = [script EXCEPT ![t][i] = Onward(c, page'[t].pending)]
      /\ UNCHANGED <<observer, log, rows, ran, sessions, history, typed, confirms>>
  BY DEF Propose, runLog, input, HasRun
<1>2. /\ p \in Page /\ p.session \in Session /\ Talk(p, ran) /\ Proposed(p, ran)
      /\ HoldsPage(t, p, ran, n) /\ HoldsScript(c, t, ran, n) /\ c \in Running
      /\ Fits(c, t, ran) /\ Live(c) /\ Serves(c, p) /\ ~c.stopped
      /\ page \in [Actor -> Page] /\ t \in Actor
  BY <1>1, Known DEF InGraph
<1>3. /\ c.prompt \in Prompt /\ c.session \in Session /\ c.run \in DOMAIN ran
      /\ ran[c.run].prompt = c.prompt /\ ran[c.run].session = c.session
      /\ c.run \in Run /\ ran[c.run].actor = t
  BY <1>1, OwnRun DEF Actor
<1>4. ran[c.run].outcome = "gated"
  BY <1>1, <1>2, <1>3 DEF Fits
<1>5. /\ p.bypass = None /\ c.session = p.session /\ p.messages # <<>>
      /\ Last(p.messages).kind = "gated" /\ Last(p.messages).run = c.run
  BY <1>1, <1>2 DEF Serves, Prompted, Asking, InGraph, Waiting
<1>6. PICK x : x = [prompt |-> c.prompt, gate |-> c.run, spent |-> FALSE]
  OBVIOUS
<1>7. /\ x \in Proposal /\ x.prompt = c.prompt /\ x.gate = c.run /\ ~x.spent
  BY <1>3, <1>6 DEF Proposal
<1>8. PICK q : q = [p EXCEPT !.pending = x]
  OBVIOUS
<1>9. /\ q \in Page /\ q.session = p.session /\ q.torn = p.torn
      /\ q.messages = p.messages /\ q.bypass = p.bypass /\ q.pending = x
  BY <1>2, <1>7, <1>8, PendingType
<1>10. Talk(q, ran)
  BY <1>2, <1>9, TalkSame
<1>11. Proposed(q, ran) /\ OnPage(q) = OnPage(p)
  BY <1>3, <1>5, <1>7, <1>9 DEF Proposed, OnPage
<1>12. HoldsPage(t, q, ran, n)
  BY <1>2, <1>3, <1>4, <1>5, <1>7, <1>9 DEF HoldsPage, Gated
<1>13. page' = [page EXCEPT ![t] = q] /\ page'[t] = q
  BY <1>1, <1>2, <1>6, <1>8
<1>14. PICK d : d = Onward(c, q.pending)
  OBVIOUS
<1>15. /\ d \in Running /\ d.at \in {"idle", "panel"}
       /\ Fits(d, t, ran) /\ (Live(d) => Serves(d, q))
       /\ HoldsScript(d, t, ran, n) /\ (Gives(d) => Gives(c)) /\ Permit(d) = 0
  <2>1. c.at # "confirming"
    BY <1>1
  <2> QED
    BY <1>2, <1>9, <1>14, <2>1, OnwardType
<1>16. script' = [script EXCEPT ![t][i] = d]
  BY <1>1, <1>13, <1>14
<1>17. c.at \notin InGraph \cup {"idle"}
  BY <1>1 DEF InGraph
<1> QED
  BY <1>1, <1>2, <1>9, <1>10, <1>11, <1>12, <1>13, <1>15, <1>16, <1>17, AloneOn

Confirmed(p, k) ==
  [p EXCEPT !.bypass = [prompt |-> p.pending.prompt, gate |-> p.pending.gate, click |-> k],
            !.pending = [p.pending EXCEPT !.spent = TRUE]]

LEMMA ConfirmedType ==
  ASSUME NEW p \in Page, p.pending # None, NEW k \in Run, NEW q, q = Confirmed(p, k)
  PROVE  /\ q \in Page /\ q.session = p.session /\ q.torn = p.torn
         /\ q.messages = p.messages
         /\ q.bypass # None /\ q.bypass.prompt = p.pending.prompt
         /\ q.bypass.gate = p.pending.gate /\ q.bypass.click = k
         /\ q.pending # None /\ q.pending.spent /\ q.pending.prompt = p.pending.prompt
         /\ q.pending.gate = p.pending.gate
<1>1. p.pending \in Proposal
  BY DEF Page
<1>2. PICK b : b = [prompt |-> p.pending.prompt, gate |-> p.pending.gate, click |-> k]
  OBVIOUS
<1>3. /\ b \in Bypass /\ b.prompt = p.pending.prompt /\ b.gate = p.pending.gate
      /\ b.click = k
  BY <1>1, <1>2 DEF Proposal, Bypass
<1>4. PICK x : x = [p.pending EXCEPT !.spent = TRUE]
  OBVIOUS
<1>5. /\ x \in Proposal /\ x.prompt = p.pending.prompt /\ x.gate = p.pending.gate
      /\ x.spent
  BY <1>1, <1>4 DEF Proposal
<1>6. q = [p EXCEPT !.bypass = b, !.pending = x]
  BY <1>2, <1>4 DEF Confirmed
<1>7. /\ q \in Page /\ q.session = p.session /\ q.torn = p.torn
      /\ q.messages = p.messages /\ q.bypass = b /\ q.pending = x
  BY <1>3, <1>5, <1>6 DEF Page
<1> QED
  BY <1>3, <1>5, <1>7, RecordAssumption

LEMMA ConfirmKeeps ==
  ASSUME CInv, NEW t \in Tab, NEW i \in Script, Confirm(t, i)
  PROVE  CInv'
<1> DEFINE c == script[t][i]
           p == page[t]
           n == confirms[t]
<1>1. /\ c.at = "panel" /\ c.trigger = "confirm"
      /\ page' = [page EXCEPT ![t] = [@ EXCEPT
           !.bypass = [prompt |-> p.pending.prompt, gate |-> p.pending.gate,
                       click |-> c.confirm],
           !.pending = [p.pending EXCEPT !.spent = TRUE]]]
      /\ script' = [script EXCEPT ![t][i].at = "confirming"]
      /\ UNCHANGED <<observer, log, rows, ran, sessions, history, typed, confirms>>
  BY DEF Confirm, Go, runLog, input
<1>2. /\ p \in Page /\ p.session \in Session /\ Talk(p, ran) /\ Proposed(p, ran)
      /\ HoldsPage(t, p, ran, n) /\ HoldsScript(c, t, ran, n) /\ c \in Running
      /\ Fits(c, t, ran) /\ Live(c) /\ Serves(c, p) /\ ~c.stopped
      /\ page \in [Actor -> Page] /\ t \in Actor
  BY <1>1, Known DEF InGraph
<1>3. Gives(c) /\ p.pending # None
  BY <1>1, <1>2 DEF Gives, Serves
<1>4. c.confirm = n /\ n # 0 /\ Unused(n, t, ran) /\ n \in Nat /\ n \in Run
  <2>1. c.confirm = n /\ n # 0 /\ Unused(n, t, ran)
    BY <1>2, <1>3 DEF HoldsScript
  <2>2. c.confirm \in Nat
    BY <1>2 DEF Running
  <2> QED
    BY <2>1, <2>2 DEF Run
<1>5. PICK k \in Run : k = n
  BY <1>4
<1>6. PICK q : q = Confirmed(p, k)
  OBVIOUS
<1>7. /\ q \in Page /\ q.session = p.session /\ q.torn = p.torn
      /\ q.messages = p.messages
      /\ q.bypass # None /\ q.bypass.prompt = p.pending.prompt
      /\ q.bypass.gate = p.pending.gate /\ q.bypass.click = n
      /\ q.pending # None /\ q.pending.spent /\ q.pending.prompt = p.pending.prompt
      /\ q.pending.gate = p.pending.gate
  <2>1. /\ q \in Page /\ q.session = p.session /\ q.torn = p.torn
        /\ q.messages = p.messages
        /\ q.bypass # None /\ q.bypass.prompt = p.pending.prompt
        /\ q.bypass.gate = p.pending.gate /\ q.bypass.click = k
        /\ q.pending # None /\ q.pending.spent /\ q.pending.prompt = p.pending.prompt
        /\ q.pending.gate = p.pending.gate
    <3>1. /\ p \in Page /\ p.pending # None /\ k \in Run
          /\ q = Confirmed(p, k)
      BY <1>2, <1>3, <1>5, <1>6
    <3> HIDE DEF p, c, n
    <3> QED
      BY ONLY <3>1, ConfirmedType
  <2> QED
    BY <1>5, <2>1
<1>8. Talk(q, ran) /\ Proposed(q, ran) /\ OnPage(q) = n
  BY <1>2, <1>7, TalkSame DEF Proposed, Unasked, OnPage
<1>9. HoldsPage(t, q, ran, n)
  <2>1. Gated(p.pending.gate, t, p.pending.prompt, ran)
    BY <1>2, <1>3 DEF HoldsPage
  <2>2. n \in 1..n
    BY <1>4
  <2> QED
    BY <1>4, <1>7, <1>8, <2>1, <2>2 DEF HoldsPage
<1>10. PICK at \in At : at = "confirming"
  BY DEF At
<1>11. PICK d : d = Placed(c, at)
  OBVIOUS
<1>12. /\ d \in Running /\ d.at = "confirming" /\ ~d.stopped
       /\ d.trigger = c.trigger /\ d.gate = c.gate /\ d.click = c.click
  <2>1. /\ d \in Running /\ d.at = at /\ d.stopped = c.stopped
        /\ d.trigger = c.trigger /\ d.gate = c.gate /\ d.click = c.click
    BY <1>2, <1>11, PlacedType
  <2> QED
    BY <1>2, <1>10, <2>1
<1>13. page' = [page EXCEPT ![t] = q] /\ script' = [script EXCEPT ![t][i] = d]
  <2>1. page' = [page EXCEPT ![t] = q]
    BY <1>1, <1>4, <1>5, <1>6 DEF Confirmed
  <2>2. script' = [script EXCEPT ![t][i] = d]
    BY <1>1, <1>10, <1>11 DEF Placed
  <2> QED
    BY <2>1, <2>2
<1>14. Fits(d, t, ran)
  BY <1>1, <1>2, <1>12, NameAssumption DEF Fits, InGraph, HasRun, Prompted, Asking
<1>15. Serves(d, q)
  BY <1>7, <1>12 DEF Serves, Switching, Prompted, Asking, InGraph, Waiting
<1>16. HoldsScript(d, t, ran, n) /\ ~Gives(d) /\ Permit(d) = 0
  BY <1>12 DEF HoldsScript, Gives, Permit, Asking
<1>17. Moves(t, c, d, p, q, ran, n)
  BY <1>2, <1>3, <1>8, <1>9, <1>15, <1>16 DEF Moves
<1>18. Reads(d, q, history) /\ d.at \notin HasRun /\ d.at # "opened"
  BY <1>12 DEF Reads, HasRun, InGraph
<1> QED
  BY <1>1, <1>2, <1>7, <1>12, <1>13, <1>14, <1>17, <1>18, PageStep

LEMMA WithdrawKeeps ==
  ASSUME CInv, NEW t \in Tab, NEW i \in Script, Withdraw(t, i)
  PROVE  CInv'
<1> DEFINE c == script[t][i]
           p == page[t]
           n == confirms[t]
<1>1. /\ c.at \in {"panel", "confirming"}
      /\ page' = [page EXCEPT ![t].pending = None]
      /\ script' = [script EXCEPT ![t][i] =
           IF p.bypass # None \/ p.card # None THEN Rerun ELSE Idle]
      /\ UNCHANGED <<observer, log, rows, ran, sessions, history, typed, confirms>>
  BY DEF Withdraw, runLog, input
<1>2. /\ p \in Page /\ p.session \in Session /\ Talk(p, ran) /\ Proposed(p, ran)
      /\ HoldsPage(t, p, ran, n) /\ HoldsScript(c, t, ran, n)
      /\ page \in [Actor -> Page] /\ t \in Actor
  BY Known
<1>3. PICK q : q = [p EXCEPT !.pending = None]
  OBVIOUS
<1>4. /\ q \in Page /\ q.session = p.session /\ q.messages = p.messages /\ q.torn = p.torn
      /\ q.bypass = p.bypass /\ q.pending = None
  BY <1>2, <1>3 DEF Page
<1>5. Talk(q, ran) /\ Proposed(q, ran) /\ HoldsPage(t, q, ran, n)
  BY <1>2, <1>4, PageSame
<1>6. OnPage(q) = OnPage(p)
  BY <1>4 DEF OnPage
<1>7. page' = [page EXCEPT ![t] = q] /\ page'[t] = q
  BY <1>1, <1>2, <1>3
<1>8. PICK d : d = IF p.bypass # None \/ p.card # None THEN Rerun ELSE Idle
  OBVIOUS
<1>9. /\ d \in Running /\ d.at \in {"idle", "top", "panel"} /\ Fits(d, t, ran)
      /\ (Live(d) => Serves(d, page'[t])) /\ HoldsScript(d, t, ran, n) /\ ~Gives(d)
      /\ Permit(d) = 0
  <2>1. CASE d = Rerun
    BY <1>2, <2>1, RerunType, RerunFits
  <2>2. CASE d = Idle
    BY <2>2, IdleType, IdleFields, IdleFits
  <2> QED
    BY <1>8, <2>1, <2>2
<1>10. script' = [script EXCEPT ![t][i] = d] /\ c.at \notin InGraph \cup {"idle"}
  BY <1>1, <1>8 DEF InGraph
<1> QED
  BY <1>1, <1>4, <1>5, <1>6, <1>7, <1>9, <1>10, AloneOn

-----------------------------------------------------------------------------
(* Clicks.                                                                    *)

Stopped(c) == [c EXCEPT !.stopped = TRUE]
AtTop(trigger, text, k) ==
  [Rerun EXCEPT !.trigger = trigger, !.typed = text, !.confirm = k]
IdleStopped(b) == [Idle EXCEPT !.stopped = b]

LEMMA StoppedType ==
  ASSUME NEW c \in Running, NEW d, d = Stopped(c)
  PROVE  /\ d \in Running /\ d.stopped /\ d.at = c.at
         /\ d.trigger = c.trigger /\ d.typed = c.typed /\ d.confirm = c.confirm
         /\ d.step = c.step /\ d.read = c.read
         /\ d.prompt = c.prompt /\ d.gate = c.gate /\ d.click = c.click
         /\ d.session = c.session /\ d.run = c.run /\ d.outcome = c.outcome
         /\ d.record = c.record
BY DEF Stopped, Running

LEMMA AtTopType ==
  ASSUME NEW trigger \in Trigger, NEW text \in Prompt \cup {None}, NEW k \in Nat, NEW d,
         d = AtTop(trigger, text, k)
  PROVE  /\ d \in Running /\ d.at = "top" /\ ~d.stopped /\ d.trigger = trigger
         /\ d.typed = text /\ d.confirm = k /\ d.gate = 0 /\ d.click = 0
BY RerunType DEF AtTop, Running

LEMMA IdleStoppedType ==
  ASSUME NEW b \in BOOLEAN, NEW d, d = IdleStopped(b)
  PROVE  d \in Running /\ d.at = "idle" /\ d.gate = 0 /\ d.click = 0
BY IdleType DEF IdleStopped, Idle

\* What becomes of script c of tab t at a click that gives it trigger, text and number k,
\* when m is the number of clicks on its panel.
LEMMA StoppedKeeps ==
  ASSUME NEW c \in Running, NEW t \in Tab, Fits(c, t, ran), c.at \in InGraph,
         NEW n \in Nat, NEW m \in Nat, n <= m, HoldsScript(c, t, ran, n),
         NEW d, d = Stopped(c)
  PROVE  /\ d \in Running /\ Fits(d, t, ran) /\ ~Live(d) /\ ~Gives(d)
         /\ Permit(d) = Permit(c) /\ HoldsScript(d, t, ran, m)
         /\ d.at = c.at /\ d.run = c.run
<1>1. /\ d \in Running /\ d.stopped /\ d.at = c.at
      /\ d.trigger = c.trigger /\ d.typed = c.typed /\ d.confirm = c.confirm
      /\ d.step = c.step /\ d.read = c.read
      /\ d.prompt = c.prompt /\ d.gate = c.gate /\ d.click = c.click
      /\ d.session = c.session /\ d.run = c.run /\ d.outcome = c.outcome
      /\ d.record = c.record
  BY StoppedType
<1>2. Fits(d, t, ran)
  BY <1>1 DEF Fits
<1>3. ~Live(d) /\ ~Gives(d) /\ Permit(d) = Permit(c)
  BY <1>1 DEF Live, Gives, Permit
<1>4. Permit(c) \in Nat /\ (Permit(c) \in 1..n => Permit(c) \in 1..m)
  BY DEF Permit, Running
<1>5. HoldsScript(d, t, ran, m)
  BY <1>1, <1>3, <1>4 DEF HoldsScript
<1> QED
  BY <1>1, <1>2, <1>3, <1>5

LEMMA AtTopKeeps ==
  ASSUME NEW t \in Tab, NEW m, NEW trigger \in Trigger, NEW text \in Prompt \cup {None},
         NEW k \in Nat, trigger \in {"type", "card"} => text \in Prompt,
         trigger = "confirm" => k = m /\ m # 0 /\ Unused(m, t, ran),
         NEW p, NEW d, d = AtTop(trigger, text, k)
  PROVE  /\ d \in Running /\ Fits(d, t, ran) /\ Serves(d, p)
         /\ (Gives(d) => trigger = "confirm")
         /\ Permit(d) = 0 /\ HoldsScript(d, t, ran, m) /\ d.at = "top"
<1>1. /\ d \in Running /\ d.at = "top" /\ ~d.stopped /\ d.trigger = trigger
      /\ d.typed = text /\ d.confirm = k /\ d.gate = 0 /\ d.click = 0
  BY AtTopType
<1>2. Fits(d, t, ran)
  BY <1>1, NameAssumption DEF Fits, InGraph, HasRun, Prompted, Asking
<1>3. Serves(d, p)
  BY <1>1 DEF Serves, Switching, Prompted, Asking, InGraph, Waiting
<1>4. Permit(d) = 0 /\ (Gives(d) => trigger = "confirm")
  BY <1>1 DEF Permit, Asking, Gives
<1>5. HoldsScript(d, t, ran, m)
  BY <1>1, <1>4 DEF HoldsScript, Asking
<1> QED
  BY <1>1, <1>2, <1>3, <1>4, <1>5

\* The scripts s of tab t after a click, the clicks on its panel being m.
LEMMA Clicked ==
  ASSUME NEW t \in Tab, NEW s, NEW s2, NEW p, NEW n \in Nat, NEW m \in Nat, n <= m,
         Holds(t, s, p, ran, n),
         \A i \in Script : /\ HoldsScript(s2[i], t, ran, m)
                           /\ Permit(s2[i]) \in {0, Permit(s[i])}
                           /\ Gives(s2[i]) => n < m
                           /\ Live(s2[i]) => Serves(s2[i], p),
         \A i, j \in Script : Live(s2[i]) /\ Live(s2[j]) => i = j
  PROVE  Holds(t, s2, p, ran, m) /\ Current(s2, p)
<1>1. /\ \A i \in Script : HoldsScript(s[i], t, ran, n)
      /\ HoldsPage(t, p, ran, n) /\ Apart(s, p, n)
  BY DEF Holds
<1>2. \A i \in Script : Permit(s[i]) # 0 => Permit(s[i]) \in 1..n
  BY <1>1 DEF HoldsScript
<1>3. OnPage(p) # 0 => OnPage(p) \in 1..n
  BY <1>1 DEF HoldsPage, OnPage
<1>4. 1..n \subseteq 1..m /\ (n < m => m \notin 1..n /\ m # 0)
  OBVIOUS
<1>5. HoldsPage(t, p, ran, m)
  BY <1>1, <1>4 DEF HoldsPage
<1>6. ASSUME NEW i \in Script, NEW j \in Script, i # j, Permit(s2[i]) # 0
      PROVE  Permit(s2[i]) # Permit(s2[j])
  BY <1>1, <1>6 DEF Apart
<1>7. ASSUME NEW i \in Script, OnPage(p) # 0
      PROVE  OnPage(p) # Permit(s2[i])
  BY <1>1, <1>7 DEF Apart
<1>8. ASSUME NEW i \in Script, NEW j \in Script, Gives(s2[i])
      PROVE  Permit(s2[j]) # m
  <2>1. n < m /\ Permit(s2[j]) \in {0, Permit(s[j])}
    BY <1>8
  <2> QED
    BY <2>1, <1>2, <1>4
<1>9. ASSUME NEW i \in Script, Gives(s2[i])
      PROVE  OnPage(p) # m
  <2>1. n < m
    BY <1>9
  <2> QED
    BY <2>1, <1>3, <1>4
<1>10. Apart(s2, p, m)
  BY <1>6, <1>7, <1>8, <1>9 DEF Apart
<1>11. Current(s2, p)
  BY DEF Current
<1> QED
  BY <1>5, <1>10, <1>11 DEF Holds

LEMMA ClickKeeps ==
  ASSUME CInv, NEW t \in Tab, NEW trigger \in Trigger, NEW text \in Prompt \cup {None},
         NEW k \in Nat, Click(t, trigger, text, k),
         trigger \in {"type", "card"} => text \in Prompt,
         NEW m \in Nat, confirms' = [confirms EXCEPT ![t] = m],
         \/ trigger # "confirm" /\ m = confirms[t]
         \/ trigger = "confirm" /\ m = confirms[t] + 1 /\ k = m,
         typed' \in 0..MaxPrompts
  PROVE  CInv'
<1> DEFINE next == CHOOSE i \in Script : i \notin Recording(t)
           acts == trigger # "none" \/ page[t].bypass # None \/ page[t].card # None
           New(i) == IF i \in Recording(t) THEN Stopped(script[t][i])
                     ELSE IF i = next /\ acts THEN AtTop(trigger, text, k)
                     ELSE IdleStopped(i \in Busy(t))
           n == confirms[t]
<1>1. /\ script' = [script EXCEPT ![t] = [i \in Script |-> New(i)]]
      /\ UNCHANGED <<page, observer, log, rows, ran, sessions, history>>
  BY DEF Click, runLog, Stopped, AtTop, IdleStopped
<1>2. /\ Types /\ Sound(page, script, ran, confirms) /\ Owned(script, ran) /\ t \in Actor
      /\ page \in [Actor -> Page] /\ script \in [Actor -> [Script -> Running]]
      /\ confirms \in [Tab -> Nat] /\ n \in Nat
  BY DEF CInv, Types, Actor
<1>3. /\ Holds(t, script[t], page[t], ran, n) /\ Bypassed(ran, confirms)
      /\ Current(script[t], page[t])
  BY <1>2 DEF Sound
<1>4. n <= m /\ (trigger = "confirm" => k = m /\ m # 0 /\ n < m)
  BY <1>2
<1>5. ASSUME trigger = "confirm"
      PROVE  Unused(m, t, ran)
  <2> SUFFICES ASSUME NEW r \in DOMAIN ran, ran[r].actor = t
               PROVE  ran[r].click # m
    BY DEF Unused
  <2>1. ran[r].gate = 0 => ran[r].click = 0
    BY <1>3 DEF Bypassed
  <2>2. ran[r].gate # 0 => ran[r].click \in 1..n
    BY <1>3 DEF Bypassed
  <2> QED
    BY <2>1, <2>2, <1>2, <1>4, <1>5
<1>6. ASSUME NEW i \in Script
      PROVE  /\ New(i) \in Running /\ Fits(New(i), t, ran)
             /\ HoldsScript(New(i), t, ran, m)
             /\ Permit(New(i)) \in {0, Permit(script[t][i])}
             /\ Gives(New(i)) => n < m
             /\ Live(New(i)) => i = next /\ Serves(New(i), page[t])
             /\ New(i).at \in {"idle", "top"} \/
                  (New(i).at = script[t][i].at /\ New(i).run = script[t][i].run)
             /\ New(i).at \in {"idle", "top"} \/ New(i).at \in InGraph
  <2>1. /\ script[t][i] \in Running /\ Fits(script[t][i], t, ran)
        /\ HoldsScript(script[t][i], t, ran, n)
    BY <1>2, <1>3 DEF Sound, Holds
  <2>2. CASE i \in Recording(t)
    <3>1. PICK d : d = Stopped(script[t][i])
      OBVIOUS
    <3>2. script[t][i].at \in InGraph
      BY <2>2 DEF Recording, InGraph
    <3>3. PICK c \in Running : c = script[t][i]
      BY <2>1
    <3>4. /\ c \in Running /\ t \in Tab /\ Fits(c, t, ran) /\ c.at \in InGraph
          /\ n \in Nat /\ m \in Nat /\ n <= m /\ HoldsScript(c, t, ran, n)
          /\ d = Stopped(c)
      BY <1>2, <1>4, <2>1, <3>1, <3>2, <3>3
    <3>5. /\ d \in Running /\ Fits(d, t, ran) /\ ~Live(d) /\ ~Gives(d)
          /\ Permit(d) = Permit(c) /\ HoldsScript(d, t, ran, m)
          /\ d.at = c.at /\ d.run = c.run
      <4> HIDE DEF n
      <4> QED
        BY ONLY <3>4, StoppedKeeps
    <3>6. New(i) = d
      BY <2>2, <3>1
    <3> HIDE DEF New
    <3> QED
      BY <3>2, <3>3, <3>5, <3>6
  <2>3. CASE i \notin Recording(t) /\ i = next /\ acts
    <3>1. PICK d : d = AtTop(trigger, text, k)
      OBVIOUS
    <3>2. /\ d \in Running /\ Fits(d, t, ran) /\ Serves(d, page[t])
          /\ (Gives(d) => trigger = "confirm")
          /\ Permit(d) = 0 /\ HoldsScript(d, t, ran, m) /\ d.at = "top"
      BY <1>4, <1>5, <3>1, AtTopKeeps
    <3>3. New(i) = d
      BY <2>3, <3>1
    <3>4. i = next /\ (Gives(d) => n < m)
      BY <1>4, <2>3, <3>2
    <3> HIDE DEF New, acts, next, n
    <3> QED
      BY ONLY <3>2, <3>3, <3>4
  <2>4. CASE i \notin Recording(t) /\ ~(i = next /\ acts)
    <3> DEFINE b == i \in Busy(t)
    <3>1. b \in BOOLEAN
      OBVIOUS
    <3>2. PICK d : d = IdleStopped(b)
      OBVIOUS
    <3>3. d \in Running /\ d.at = "idle" /\ d.gate = 0 /\ d.click = 0
      <4> HIDE DEF b
      <4> QED
        BY ONLY <3>1, <3>2, IdleStoppedType
    <3>4. /\ Fits(d, t, ran) /\ ~Live(d) /\ Permit(d) = 0 /\ ~Gives(d)
          /\ HoldsScript(d, t, ran, m)
      BY <3>3, IdleFits
    <3>5. New(i) = d
      BY <2>4, <3>2
    <3> HIDE DEF New, acts
    <3> QED
      BY <3>3, <3>4, <3>5
  <2> HIDE DEF New, acts
  <2> QED
    BY <2>2, <2>3, <2>4
<1> HIDE DEF New, next
<1>7. /\ \A i \in Script : script'[t][i] = New(i)
      /\ \A b \in Actor \ {t} : script'[b] = script[b]
      /\ script' \in [Actor -> [Script -> Running]]
  <2>1. [i \in Script |-> New(i)] \in [Script -> Running]
    BY <1>6
  <2>2. /\ script'[t] = [i \in Script |-> New(i)]
        /\ \A b \in Actor \ {t} : script'[b] = script[b]
    BY <1>1, <1>2
  <2>3. script' \in [Actor -> [Script -> Running]]
    BY <1>1, <1>2, <2>1
  <2> QED
    BY <2>2, <2>3
<1>8. /\ confirms' \in [Tab -> Nat] /\ confirms'[t] = m
      /\ \A u \in Tab \ {t} : confirms'[u] = confirms[u]
  BY <1>2
<1>9. Types'
  BY <1>1, <1>2, <1>7, <1>8 DEF Types
<1>10. Holds(t, script'[t], page[t], ran, m) /\ Current(script'[t], page[t])
  <2>1. PICK x \in Nat : x = n
    BY <1>2
  <2>2. PICK s2 : s2 = script'[t]
    OBVIOUS
  <2>3. PICK s : s = script[t]
    OBVIOUS
  <2>4. PICK p : p = page[t]
    OBVIOUS
  <2>5. \A i \in Script : s2[i] = New(i)
    BY <1>7, <2>2
  <2>6. /\ t \in Tab /\ x \in Nat /\ m \in Nat /\ x <= m /\ Holds(t, s, p, ran, x)
        /\ \A i \in Script : /\ HoldsScript(s2[i], t, ran, m)
                             /\ Permit(s2[i]) \in {0, Permit(s[i])}
                             /\ Gives(s2[i]) => x < m
                             /\ Live(s2[i]) => Serves(s2[i], p)
        /\ \A i, j \in Script : Live(s2[i]) /\ Live(s2[j]) => i = j
    BY <1>3, <1>4, <1>6, <2>1, <2>3, <2>4, <2>5
  <2>7. Holds(t, s2, p, ran, m) /\ Current(s2, p)
    BY ONLY <2>6, Clicked
  <2> QED
    BY <2>2, <2>4, <2>7
<1>11. Bypassed(ran, confirms')
  <2> SUFFICES ASSUME NEW r \in DOMAIN ran
               PROVE  IF ran[r].gate = 0 THEN ran[r].click = 0
                      ELSE /\ Gated(ran[r].gate, ran[r].actor, ran[r].prompt, ran)
                           /\ ran[r].actor \in Tab
                           /\ ran[r].click \in 1..confirms'[ran[r].actor]
                           /\ \A q \in DOMAIN ran :
                                ran[q].actor = ran[r].actor /\ ran[q].click = ran[r].click
                                  => q = r
    BY DEF Bypassed
  <2>1. IF ran[r].gate = 0 THEN ran[r].click = 0
        ELSE /\ Gated(ran[r].gate, ran[r].actor, ran[r].prompt, ran)
             /\ ran[r].actor \in Tab
             /\ ran[r].click \in 1..confirms[ran[r].actor]
             /\ \A q \in DOMAIN ran :
                  ran[q].actor = ran[r].actor /\ ran[q].click = ran[r].click => q = r
    BY <1>3 DEF Bypassed
  <2>2. ran[r].actor \in Tab => 1..confirms[ran[r].actor] \subseteq 1..confirms'[ran[r].actor]
    BY <1>2, <1>4, <1>8
  <2> QED
    BY <2>1, <2>2
<1>12. Sound(page', script', ran', confirms')
  <2>1. \A b \in Actor, i \in Script : Fits(script'[b][i], b, ran)
    BY <1>2, <1>6, <1>7 DEF Sound
  <2>2. ASSUME NEW u \in Tab
        PROVE  /\ Current(script'[u], page[u])
               /\ Holds(u, script'[u], page[u], ran, confirms'[u])
    <3>1. u \in Actor /\ Current(script[u], page[u])
          /\ Holds(u, script[u], page[u], ran, confirms[u])
      BY <1>2 DEF Sound, Actor
    <3> QED
      BY <3>1, <1>7, <1>8, <1>10
  <2>3. \A u \in Tab : Talk(page[u], ran) /\ Proposed(page[u], ran)
    BY <1>2 DEF Sound
  <2> QED
    BY <1>1, <1>11, <2>1, <2>2, <2>3 DEF Sound
<1>13. \A b \in Actor, j \in Script : script'[b][j].at \in HasRun =>
         script[b][j].at = script'[b][j].at /\ script'[b][j].run = script[b][j].run
  <2>1. "idle" \notin HasRun /\ "top" \notin HasRun
    BY DEF HasRun, InGraph
  <2> QED
    BY <2>1, <1>6, <1>7
<1>14. Owned(script', ran')
  BY <1>1, <1>2, <1>13 DEF Owned
<1>15. \A z \in Session : Past(history'[z], z, ran')
  BY <1>1 DEF CInv
<1>16. ASSUME NEW u \in Tab, NEW j \in Script
       PROVE  Reads(script'[u][j], page'[u], history')
  <2>1. Reads(script[u][j], page[u], history) /\ u \in Actor
    BY DEF CInv, Actor
  <2>2. CASE u # t
    BY <2>1, <2>2, <1>1, <1>7
  <2>3. CASE u = t
    BY <2>3, <1>6, <1>7 DEF Reads, InGraph
  <2> QED
    BY <2>2, <2>3
<1> QED
  BY <1>9, <1>12, <1>14, <1>15, <1>16 DEF CInv

LEMMA TextType ==
  ASSUME CInv, typed < MaxPrompts, typed' = typed + 1
  PROVE  Text[typed + 1] \in Prompt /\ typed' \in 0..MaxPrompts
BY TextAssumption, ScriptAssumption DEF CInv, Types

\* A click that is none on the confirmation.
LEMMA ClickedOn ==
  ASSUME CInv, NEW t \in Tab, NEW trigger \in Trigger \ {"confirm"},
         NEW text \in Prompt \cup {None}, Click(t, trigger, text, 0),
         trigger \in {"type", "card"} => text \in Prompt,
         confirms' = confirms, typed' \in 0..MaxPrompts
  PROVE  CInv'
<1>1. confirms \in [Tab -> Nat]
  BY DEF CInv, Types
<1>2. PICK m \in Nat : m = confirms[t] /\ confirms' = [confirms EXCEPT ![t] = m]
  BY <1>1
<1>3. PICK k \in Nat : k = 0
  OBVIOUS
<1>4. Click(t, trigger, text, k) /\ trigger \in Trigger /\ trigger # "confirm"
  BY <1>3
<1> QED
  BY <1>2, <1>4, ClickKeeps

LEMMA ClicksKeep ==
  ASSUME CInv, NEW t \in Tab, Clicks(t)
  PROVE  CInv'
<1>1. confirms \in [Tab -> Nat] /\ typed \in 0..MaxPrompts
  BY DEF CInv, Types
<1>2. CASE Type(t)
  <2>1. /\ Click(t, "type", Text[typed + 1], 0) /\ typed < MaxPrompts
        /\ typed' = typed + 1 /\ confirms' = confirms
    BY <1>2 DEF Type
  <2>2. PICK x \in Prompt, g \in Trigger \ {"confirm"} : x = Text[typed + 1] /\ g = "type"
    BY <2>1, TextType DEF Trigger
  <2>3. Click(t, g, x, 0) /\ typed' \in 0..MaxPrompts
    BY <2>1, <2>2, TextType
  <2> QED
    BY <2>1, <2>3, ClickedOn
<1>3. CASE Card(t)
  <2>1. /\ Click(t, "card", Text[typed + 1], 0) /\ typed < MaxPrompts
        /\ typed' = typed + 1 /\ confirms' = confirms
    BY <1>3 DEF Card
  <2>2. PICK x \in Prompt, g \in Trigger \ {"confirm"} : x = Text[typed + 1] /\ g = "card"
    BY <2>1, TextType DEF Trigger
  <2>3. Click(t, g, x, 0) /\ typed' \in 0..MaxPrompts
    BY <2>1, <2>2, TextType
  <2> QED
    BY <2>1, <2>3, ClickedOn
<1>4. ASSUME NEW g \in Trigger \ {"confirm", "type", "card"}, Click(t, g, None, 0),
             confirms' = confirms, typed' = typed
      PROVE  CInv'
  <2>1. PICK x \in Prompt \cup {None} : x = None
    OBVIOUS
  <2>2. Click(t, g, x, 0) /\ typed' \in 0..MaxPrompts /\ g \in Trigger \ {"confirm"}
    BY <1>1, <1>4, <2>1
  <2> QED
    BY <1>4, <2>2, ClickedOn
<1>5. CASE Touch(t)
  <2>1. Click(t, "none", None, 0) /\ typed' = typed /\ confirms' = confirms
    BY <1>5 DEF Touch
  <2>2. PICK g \in Trigger \ {"confirm", "type", "card"} : g = "none"
    BY DEF Trigger
  <2> QED
    BY <1>4, <2>1, <2>2
<1>6. ASSUME NEW b \in {"new", "resume"}, Switch(t, b)
      PROVE  CInv'
  <2>1. Click(t, b, None, 0) /\ typed' = typed /\ confirms' = confirms
    BY <1>6 DEF Switch
  <2>2. b \in Trigger \ {"confirm", "type", "card"}
    BY DEF Trigger
  <2> QED
    BY <1>4, <2>1, <2>2
<1>7. CASE Press(t, "cancel")
  <2>1. Click(t, "cancel", None, 0) /\ typed' = typed /\ confirms' = confirms
    BY <1>7 DEF Press
  <2>2. PICK g \in Trigger \ {"confirm", "type", "card"} : g = "cancel"
    BY DEF Trigger
  <2> QED
    BY <1>4, <2>1, <2>2
<1>8. CASE Press(t, "confirm")
  <2>1. /\ Click(t, "confirm", None, confirms[t] + 1) /\ typed' = typed
        /\ confirms' = [confirms EXCEPT ![t] = confirms[t] + 1]
    BY <1>8 DEF Press
  <2>2. PICK m \in Nat : m = confirms[t] + 1
    BY <1>1
  <2>3. PICK g \in Trigger : g = "confirm"
    BY DEF Trigger
  <2>4. PICK x \in Prompt \cup {None} : x = None
    OBVIOUS
  <2>5. /\ Click(t, g, x, m) /\ confirms' = [confirms EXCEPT ![t] = m]
        /\ typed' \in 0..MaxPrompts
    BY <1>1, <2>1, <2>2, <2>3, <2>4
  <2> QED
    BY <2>2, <2>3, <2>5, ClickKeeps
<1> QED
  BY <1>2, <1>3, <1>5, <1>6, <1>7, <1>8 DEF Clicks

-----------------------------------------------------------------------------
(* All the steps.                                                            *)

LEMMA Steps ==
  ASSUME CInv, [Next]_vars
  PROVE  CInv'
<1>1. CASE UNCHANGED vars
  BY <1>1 DEF vars, CInv, Types
<1>2. ASSUME NEW t \in Tab, Clicks(t)
      PROVE  CInv'
  BY <1>2, ClicksKeep
<1>3. ASSUME NEW t \in Tab, NEW i \in Script, TabStep(t, i)
      PROVE  CInv'
  <2>1. CASE NewSession(t, i) \/ ResumeSession(t, i) \/ ReadHistory(t, i) \/ Reset(t, i)
    BY <2>1, NewSessionKeeps, ResumeSessionKeeps, ReadHistoryKeeps, ResetKeeps
  <2>2. CASE TakeBypass(t, i) \/ TakeCard(t, i) \/ TakeTyped(t, i) \/ Unprompted(t, i)
    BY <2>2, TakeBypassKeeps, TakeCardKeeps, TakeTypedKeeps, UnpromptedKeeps
  <2>3. CASE Obsolete(t, i) \/ Say(t, i) \/ Register(t, i) \/ StartRun(t, i)
    BY <2>3, ObsoleteKeeps, SayKeeps, RegisterKeeps, StartRunKeeps
  <2>4. CASE Answer(t, i) \/ Propose(t, i) \/ Confirm(t, i) \/ Withdraw(t, i)
    BY <2>4, AnswerKeeps, ProposeKeeps, ConfirmKeeps, WithdrawKeeps
  <2> QED
    BY <1>3, <2>1, <2>2, <2>3, <2>4 DEF TabStep
<1>4. ASSUME NEW a \in Actor, NEW i \in Script, RunStep(a, i)
      PROVE  CInv'
  BY <1>4, InvokeKeeps, EndRunKeeps, WriteRowKeeps, ClearRunKeeps DEF RunStep
<1>5. ASSUME NEW i \in Script, ReplRegister(i) \/ ReplInterrupt(i)
      PROVE  CInv'
  BY <1>5, ReplRegisterKeeps, ReplInterruptKeeps
<1>6. ASSUME NEW s \in Session, ReplAsk(s) \/ Delete(s)
      PROVE  CInv'
  BY <1>6, ReplAskKeeps, DeleteKeeps
<1> QED
  BY <1>1, <1>2, <1>3, <1>4, <1>5, <1>6 DEF Next

LEMMA Invariant == Spec => []CInv
<1>1. Init => CInv
  BY Starts
<1>2. CInv /\ [Next]_vars => CInv'
  BY Steps
<1> QED
  BY <1>1, <1>2, PTL DEF Spec

-----------------------------------------------------------------------------
(* The bounds.                                                                *)

Bounded == faults \in 0..MaxFaults /\ overlaps \in 0..MaxOverlaps

LEMMA Bounds == Spec => []Bounded
<1>1. Init => Bounded
  BY FaultsAssumption DEF Init, Bounded
<1>2. ASSUME Bounded, [Next]_vars
      PROVE  Bounded'
  <2>1. Fault \/ faults' = faults => faults' \in 0..MaxFaults
    BY <1>2, FaultsAssumption DEF Fault, Bounded
  <2>2. overlaps' = overlaps \/ Overlap => overlaps' \in 0..MaxOverlaps
    BY <1>2, FaultsAssumption DEF Overlap, Bounded
  <2>3. ASSUME NEW t \in Tab, Clicks(t)
        PROVE  faults' = faults /\ overlaps' \in 0..MaxOverlaps
    <3>1. ASSUME NEW b, NEW x, NEW k, Click(t, b, x, k)
          PROVE  faults' = faults /\ overlaps' \in 0..MaxOverlaps
      BY <2>2, <3>1 DEF Click
    <3>2. Type(t) => faults' = faults /\ overlaps' \in 0..MaxOverlaps
      BY <3>1 DEF Type
    <3>3. Card(t) => faults' = faults /\ overlaps' \in 0..MaxOverlaps
      BY <3>1 DEF Card
    <3>4. Touch(t) => faults' = faults /\ overlaps' \in 0..MaxOverlaps
      BY <3>1 DEF Touch
    <3>5. \A b : Switch(t, b) => faults' = faults /\ overlaps' \in 0..MaxOverlaps
      BY <3>1 DEF Switch
    <3>6. \A b : Press(t, b) => faults' = faults /\ overlaps' \in 0..MaxOverlaps
      BY <3>1 DEF Press
    <3> QED
      BY <2>3, <3>2, <3>3, <3>4, <3>5, <3>6 DEF Clicks
  <2>4. ASSUME NEW t \in Tab, NEW i \in Script, TabStep(t, i)
        PROVE  (faults' = faults \/ Fault) /\ overlaps' = overlaps
    <3>1. ASSUME NEW s, NEW to, Entered(t, i, s, to)
          PROVE  faults' = faults /\ overlaps' = overlaps
      BY <3>1 DEF Entered, input
    <3>2. NewSession(t, i) \/ ResumeSession(t, i) => faults' = faults /\ overlaps' = overlaps
      BY <3>1 DEF NewSession, ResumeSession
    <3>3. ReadHistory(t, i) => (faults' = faults \/ Fault) /\ overlaps' = overlaps
      BY DEF ReadHistory, NoFault, input
    <3>4. Reset(t, i) \/ Obsolete(t, i) \/ Say(t, i) => faults' = faults /\ overlaps' = overlaps
      BY DEF Reset, Obsolete, Say, input
    <3>5. TakeBypass(t, i) \/ TakeCard(t, i) \/ TakeTyped(t, i) \/ Unprompted(t, i)
            => faults' = faults /\ overlaps' = overlaps
      BY DEF TakeBypass, TakeCard, TakeTyped, Unprompted, input
    <3>6. Register(t, i) => (faults' = faults \/ Fault) /\ overlaps' = overlaps
      BY DEF Register, RegisterTurn, NoFault, input
    <3>7. StartRun(t, i) \/ Answer(t, i) \/ Propose(t, i)
            => faults' = faults /\ overlaps' = overlaps
      BY DEF StartRun, Answer, Propose, input
    <3>8. Confirm(t, i) \/ Withdraw(t, i) => faults' = faults /\ overlaps' = overlaps
      BY DEF Confirm, Withdraw, input
    <3> QED
      BY <2>4, <3>2, <3>3, <3>4, <3>5, <3>6, <3>7, <3>8 DEF TabStep
  <2>5. ASSUME NEW a \in Actor, NEW i \in Script, RunStep(a, i)
        PROVE  (faults' = faults \/ Fault) /\ overlaps' = overlaps
    <3>1. Invoke(a, i) => (faults' = faults \/ Fault) /\ overlaps' = overlaps
      BY DEF Invoke, NoFault, input
    <3>2. EndRun(a, i) => (faults' = faults \/ Fault) /\ overlaps' = overlaps
      BY DEF EndRun, NoFault, input
    <3>3. WriteRow(a, i) \/ ClearRun(a, i) => (faults' = faults \/ Fault) /\ overlaps' = overlaps
      BY DEF WriteRow, ClearRun, NoFault, input
    <3> QED
      BY <2>5, <3>1, <3>2, <3>3 DEF RunStep
  <2>6. ASSUME NEW i \in Script, ReplRegister(i) \/ ReplInterrupt(i)
        PROVE  (faults' = faults \/ Fault) /\ overlaps' = overlaps
    BY <2>6 DEF ReplRegister, RegisterTurn, ReplInterrupt, NoFault, input
  <2>7. ASSUME NEW s \in Session, ReplAsk(s) \/ Delete(s)
        PROVE  (faults' = faults \/ Fault) /\ (overlaps' = overlaps \/ Overlap)
    BY <2>7 DEF ReplAsk, Delete, input
  <2>8. CASE UNCHANGED vars
    BY <1>2, <2>8 DEF vars, Bounded
  <2>9. CASE Next
    BY <2>1, <2>2, <2>3, <2>4, <2>5, <2>6, <2>7, <2>9 DEF Next, Bounded
  <2> QED
    BY <1>2, <2>8, <2>9
<1>3. Bounded /\ [Next]_vars => Bounded'
  BY <1>2
<1> QED
  BY <1>1, <1>3, PTL DEF Spec

-----------------------------------------------------------------------------
(* The properties.                                                            *)

\* Pages, scripts, records, rows and runs are what the code makes of them, through any
\* click, stop and fault (ui/app.py, ui/session.py, evaluation/observer.py).
THEOREM ChatTypesAlways == Spec => []TypeOK
<1>1. CInv /\ Bounded => TypeOK
  BY DEF CInv, Types, Bounded, TypeOK, AnyObserver, AnyTurn, AnyRow
<1> QED
  BY <1>1, Invariant, Bounds, PTL

\* Whatever is clicked while a script runs, between any two statements of a switch as
\* well, each answer a tab shows is under its own prompt, and unless a switch was cut
\* short all that it shows is of the session it is in (ui/session.py).
THEOREM OneConversation == Spec => []OwnConversation
<1>1. CInv => OwnConversation
  <2> SUFFICES ASSUME CInv, NEW t \in Tab
               PROVE  Talk(page[t], ran)
    BY DEF Talk, OwnConversation
  <2> QED
    BY PromptOfPage
<1> QED
  BY <1>1, Invariant, PTL

\* The panel asks about the last prompt, in the session of the tab, unless a click cut a
\* switch or a confirmation short (ui/app.py).
THEOREM ProposalAlwaysLast == Spec => []ProposalIsLast
<1>1. CInv => ProposalIsLast
  <2> SUFFICES ASSUME CInv, NEW t \in Tab, page[t].pending # None, ~page[t].torn,
                      ~page[t].pending.spent
               PROVE  /\ page[t].messages # <<>>
                      /\ Last(page[t].messages).kind = "gated"
                      /\ Last(page[t].messages).run = page[t].pending.gate
                      /\ ran[page[t].pending.gate].session = page[t].session
    BY DEF ProposalIsLast
  <2> QED
    BY PromptOfPage DEF Proposed
<1> QED
  BY <1>1, Invariant, PTL

\* A run that passes the gate has been stopped there, with its prompt and in its tab, and
\* has a click on the panel of its own, whatever cut off the script of the click and
\* however often the panel was shown again (ui/app.py, agents/runner.py).
THEOREM ConfirmedOnce == Spec => []BypassConfirmed
<1>1. CInv => BypassConfirmed
  BY DEF CInv, Sound, Bypassed, BypassConfirmed, Gated
<1> QED
  BY <1>1, Invariant, PTL
=============================================================================
