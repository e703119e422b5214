----------------------------- MODULE PromptRegistry -----------------------------
(***************************************************************************)
(* The prompt registry: prompts/registry.py over its two tables, the two     *)
(* caches of the serving process (prompts/routing.py:48, registry.py:601),   *)
(* the operator requests of api/routers/prompts.py, the agents' call of      *)
(* get_prompt_template, and the seeding at start-up (api/main.py:44).        *)
(*                                                                         *)
(* One process serves all requests on a thread pool.  Transactions are READ  *)
(* COMMITTED: a step is one SELECT, one commit with the UPDATEs and INSERTs   *)
(* it flushes, or one access to a cache.  The ORM writes only the columns     *)
(* whose value differs from what the session loaded.  A request refused by    *)
(* its first SELECT changes nothing and is left out.                         *)
(***************************************************************************)
EXTENDS VariantRouting

CONSTANTS
  Thread,      \* handler threads
  Stage,       \* the agent stages that have a prompt
  Prompt,      \* (id, version) pairs
  Seed,        \* Seed[s]: the prompt _SEED_PROMPTS has for stage s
  Label,       \* variant labels operators choose
  NoPrompt,    \* no row found
  Faults,      \* what can go wrong, of AllFaults
  MaxRequests  \* bound on the operator requests

ASSUME StageAssumption == Stage # {}
ASSUME SeedAssumption == Seed \in [Stage -> Prompt]
ASSUME NameAssumption ==
  /\ Label \cap Prompt = {}
  /\ NoPrompt \notin Prompt
  /\ NoVariant \notin Label \cup Prompt
ASSUME MaxRequestsAssumption == MaxRequests \in Nat
\* A SELECT of the serving path or of the seeding fails; the process dies and
\* is started again; a start-up finds no database and seeds nothing.
AllFaults == {"read", "restart", "offline"}
ASSUME FaultsAssumption == Faults \subseteq AllFaults

\* _ensure_champion_variant makes its label from the prompt's id and version, so
\* the prompt stands for that label.
AnyLabel == Label \cup Prompt

VARIABLES
  prompts,   \* the prompts table
  variants,  \* the prompt_variants table, unique by stage and label
  routing,   \* the lru_cache of _load_active_variants
  contents,  \* the lru_cache of _get_cached_prompt_content
  boot,      \* where seed_prompts_from_code is
  pc,        \* pc[t]: the statement thread t is about to run
  loc,       \* loc[t]: its local variables
  clock,     \* the next created_at
  started    \* operator requests so far

vars == <<prompts, variants, routing, contents, boot, pc, loc, clock, started>>
tables == <<prompts, variants>>
caches == <<routing, contents>>

PromptStatus == {"absent", "draft", "certified", "deprecated"}
PromptRow == [status : PromptStatus, stage : Stage]
VariantStatus == {"none", "candidate", "champion", "deprecated"}
VariantRow == [status : VariantStatus, prompt : Prompt \cup {NoPrompt},
               pct : 0..Full, created : Nat]
NoRow == [status |-> "none", prompt |-> NoPrompt, pct |-> 0, created |-> 0]
Rows == [AnyLabel -> VariantRow]
NoRows == [l \in AnyLabel |-> NoRow]

RoutingEntry == [known : BOOLEAN, rows : Rows]
NotCached == [known |-> FALSE, rows |-> NoRows]

\* "missing": the None of a fetch that failed, cached like any other result.
Content == {"unknown", "missing", "known"}

Boot == [at : {"check", "certify", "champion", "up"}, todo : SUBSET Stage,
         stage : Stage, record : Prompt \cup {NoPrompt}]

Locals == [
  stage   : Stage,
  prompt  : Prompt \cup {NoPrompt},    \* the prompt in hand
  label   : AnyLabel \cup {NoVariant}, \* the variant in hand
  pct     : 0..Full,                   \* rollout_percentage
  prev    : Prompt \cup {NoPrompt},    \* prev_certified
  old     : AnyLabel \cup {NoVariant}, \* old_champion
  row     : VariantRow,                \* the variant as the session loaded it
  status  : PromptStatus,              \* of the prompt as the session loaded it
  stamp   : Nat,                       \* now
  rows    : Rows,                      \* what _load_active_variants returned
  bucket  : Bucket,                    \* _bucket_for(session_id, stage)
  fault   : BOOLEAN ]                  \* a SELECT of this call failed

Operation == {"insert", "certifyPrev", "certify", "deprecate", "startLabel",
              "startTotal", "startInsert", "adjustTotal", "adjust", "promoteOld",
              "promote", "retire", "invalidate"}
Serving == {"load", "store", "content", "fetch", "certified", "remember", "answer"}

TypeOK ==
  /\ prompts \in [Prompt -> PromptRow]
  /\ variants \in [Stage -> Rows]
  /\ routing \in [Stage -> RoutingEntry]
  /\ contents \in [Prompt -> Content]
  /\ boot \in Boot
  /\ pc \in [Thread -> {"idle"} \cup Operation \cup Serving]
  /\ loc \in [Thread -> Locals]
  /\ clock \in Nat
  /\ started \in 0..MaxRequests

AnyStage == CHOOSE s \in Stage : TRUE
Blank == [stage |-> AnyStage, prompt |-> NoPrompt, label |-> NoVariant, pct |-> 0,
          prev |-> NoPrompt, old |-> NoVariant, row |-> NoRow, status |-> "absent",
          stamp |-> 0, rows |-> NoRows, bucket |-> 0, fault |-> FALSE]

\* lifespan runs the seeding before the first request; stages in a fixed order.
BootFrom(todo) ==
  [at |-> IF todo = {} THEN "up" ELSE "check", todo |-> todo,
   stage |-> IF todo = {} THEN AnyStage ELSE CHOOSE s \in todo : TRUE,
   record |-> NoPrompt]

Init ==
  /\ prompts = [p \in Prompt |-> [status |-> "absent", stage |-> AnyStage]]
  /\ variants = [s \in Stage |-> NoRows]
  /\ routing = [s \in Stage |-> NotCached]
  /\ contents = [p \in Prompt |-> "unknown"]
  /\ boot = BootFrom(Stage)
  /\ pc = [t \in Thread |-> "idle"]
  /\ loc = [t \in Thread |-> Blank]
  /\ clock = 0
  /\ started = 0

-----------------------------------------------------------------------------
(* The tables. *)

CertifiedIn(s) ==
  {p \in Prompt : prompts[p].status = "certified" /\ prompts[p].stage = s}

\* first() of a query: any row when there are several, none when there is none.
FirstOf(rows, none) == IF rows = {} THEN {none} ELSE rows

\* The rows the query of _load_active_variants keeps.
Active(s) ==
  [l \in AnyLabel |-> IF variants[s][l].status \in {"champion", "candidate"}
                      THEN variants[s][l] ELSE NoRow]

\* What would go wrong in the statements below: the row to replace forgotten, or
\* deprecated after the target has been set.
CertifiedAlone(target, prev) == [prompts EXCEPT ![target].status = "certified"]
CertifiedFirst(target, prev) ==
  [p \in Prompt |->
     IF p = prev THEN [prompts[p] EXCEPT !.status = "deprecated"]
     ELSE IF p = target THEN [prompts[p] EXCEPT !.status = "certified"] ELSE prompts[p]]
\* The two assignments of certify_prompt in their order: prev may be the target,
\* when another request certified it after the first SELECT.
Certified(target, prev) ==
  LET old == [p \in Prompt |-> IF p = prev THEN [prompts[p] EXCEPT !.status = "deprecated"]
                               ELSE prompts[p]]
  IN  [old EXCEPT ![target].status = "certified"]

\* Likewise promote_to_champion.
Promoted(rows, target, oldChampion) ==
  LET old == [l \in AnyLabel |-> IF l = oldChampion
                                 THEN [rows[l] EXCEPT !.status = "deprecated"]
                                 ELSE rows[l]]
  IN  [old EXCEPT ![target].status = "champion", ![target].pct = Full]

\* The columns whose value the request changed from what it had loaded.
Deprecated(rows, label, loaded) ==
  [rows EXCEPT ![label].status = IF loaded.status = "deprecated" THEN @ ELSE "deprecated",
               ![label].pct = IF loaded.pct = 0 THEN @ ELSE 0]
\* Mutant: the percentage is added to the present one.
AdjustedBy(rows, label, loaded, pct) == [rows EXCEPT ![label].pct = @ + pct]
Adjusted(rows, label, loaded, pct) ==
  [rows EXCEPT ![label].pct = IF loaded.pct = pct THEN @ ELSE pct]

-----------------------------------------------------------------------------
(* Threads. *)

Go(t, next, locals) ==
  /\ pc' = [pc EXCEPT ![t] = next]
  /\ loc' = [loc EXCEPT ![t] = locals]

\* The request ends: with its answer, or with an error that rolls back.
End(t) == Go(t, "idle", Blank)

Ready(t) == pc[t] = "idle" /\ boot.at = "up"

Request(t) ==
  /\ Ready(t)
  /\ started < MaxRequests
  /\ started' = started + 1

-----------------------------------------------------------------------------
(* Operator requests on prompts. *)

\* create_prompt: no such row yet.
CreateRead(t) ==
  \E p \in Prompt, s \in Stage :
    /\ Request(t)
    /\ prompts[p].status = "absent"
    /\ Go(t, "insert", [Blank EXCEPT !.prompt = p, !.stage = s])
    /\ UNCHANGED <<tables, caches, boot, clock>>

\* The INSERT at commit; the primary key refuses a row that came in between.
CreateInsert(t) ==
  LET l == loc[t] IN
  /\ pc[t] = "insert"
  /\ prompts' = IF prompts[l.prompt].status = "absent"
                THEN [prompts EXCEPT ![l.prompt] = [status |-> "draft", stage |-> l.stage]]
                ELSE prompts
  /\ End(t)
  /\ UNCHANGED <<variants, caches, boot, clock, started>>

\* certify_prompt: the target exists and is not certified; a deprecated one is
\* accepted like a draft.
CertifyRead(t) ==
  \E p \in Prompt :
    /\ Request(t)
    /\ prompts[p].status \in {"draft", "deprecated"}
    /\ Go(t, "certifyPrev", [Blank EXCEPT !.prompt = p, !.stage = prompts[p].stage])
    /\ UNCHANGED <<tables, caches, boot, clock>>

CertifyPrev(t) ==
  /\ pc[t] = "certifyPrev"
  /\ \E p \in FirstOf(CertifiedIn(loc[t].stage), NoPrompt) :
       Go(t, "certify", [loc[t] EXCEPT !.prev = p])
  /\ UNCHANGED <<tables, caches, boot, clock, started>>

CertifyCommit(t) ==
  /\ pc[t] = "certify"
  /\ prompts' = Certified(loc[t].prompt, loc[t].prev)
  /\ End(t)
  /\ UNCHANGED <<variants, caches, boot, clock, started>>

DeprecateRead(t) ==
  \E p \in Prompt :
    /\ Request(t)
    /\ prompts[p].status # "absent"
    /\ Go(t, "deprecate", [Blank EXCEPT !.prompt = p, !.status = prompts[p].status])
    /\ UNCHANGED <<tables, caches, boot, clock>>

DeprecateCommit(t) ==
  LET l == loc[t] IN
  /\ pc[t] = "deprecate"
  /\ prompts' = IF l.status = "deprecated" THEN prompts
                ELSE [prompts EXCEPT ![l.prompt].status = "deprecated"]
  /\ End(t)
  /\ UNCHANGED <<variants, caches, boot, clock, started>>

-----------------------------------------------------------------------------
(* Operator requests on variants. *)

\* Mutant: any prompt that exists will do.
StartReadAny(t) ==
  \E s \in Stage, p \in Prompt, l \in Label, pct \in 1..(Full - 1) :
    /\ Request(t)
    /\ prompts[p].status # "absent"
    /\ Go(t, "startLabel", [Blank EXCEPT !.stage = s, !.prompt = p, !.label = l,
                                         !.pct = pct, !.stamp = clock])
    /\ clock' = clock + 1
    /\ UNCHANGED <<tables, caches, boot>>

\* start_rollout reads the prompt in a transaction of its own and takes its time
\* stamp; the prompt's stage is not compared with the variant's.
StartRead(t) ==
  \E s \in Stage, p \in Prompt, l \in Label, pct \in 1..(Full - 1) :
    /\ Request(t)
    /\ prompts[p].status = "certified"
    /\ Go(t, "startLabel", [Blank EXCEPT !.stage = s, !.prompt = p, !.label = l,
                                         !.pct = pct, !.stamp = clock])
    /\ clock' = clock + 1
    /\ UNCHANGED <<tables, caches, boot>>

StartLabel(t) ==
  LET l == loc[t] IN
  /\ pc[t] = "startLabel"
  /\ IF variants[l.stage][l.label].status # "none" THEN End(t) ELSE Go(t, "startTotal", l)
  /\ UNCHANGED <<tables, caches, boot, clock, started>>

StartTotal(t) ==
  LET l == loc[t]
      rows == variants[l.stage]
  IN
  /\ pc[t] = "startTotal"
  /\ IF TotalShare(rows, Candidates(rows)) + l.pct > Full
     THEN End(t) ELSE Go(t, "startInsert", l)
  /\ UNCHANGED <<tables, caches, boot, clock, started>>

\* The unique constraint refuses a row of that label that came in between; the
\* cache is then not cleared.
StartInsert(t) ==
  LET l == loc[t] IN
  /\ pc[t] = "startInsert"
  /\ IF variants[l.stage][l.label].status # "none"
     THEN End(t) /\ UNCHANGED variants
     ELSE /\ variants' = [variants EXCEPT ![l.stage][l.label] =
                            [status |-> "candidate", prompt |-> l.prompt,
                             pct |-> l.pct, created |-> l.stamp]]
          /\ Go(t, "invalidate", l)
  /\ UNCHANGED <<prompts, caches, boot, clock, started>>

AdjustRead(t) ==
  \E s \in Stage, l \in AnyLabel, pct \in 0..(Full - 1) :
    /\ Request(t)
    /\ variants[s][l].status = "candidate"
    /\ Go(t, "adjustTotal", [Blank EXCEPT !.stage = s, !.label = l, !.pct = pct,
                                          !.row = variants[s][l]])
    /\ UNCHANGED <<tables, caches, boot, clock>>

AdjustTotal(t) ==
  LET l == loc[t]
      rows == variants[l.stage]
  IN
  /\ pc[t] = "adjustTotal"
  /\ IF TotalShare(rows, Candidates(rows) \ {l.label}) + l.pct > Full
     THEN End(t) ELSE Go(t, "adjust", l)
  /\ UNCHANGED <<tables, caches, boot, clock, started>>

AdjustCommit(t) ==
  LET l == loc[t] IN
  /\ pc[t] = "adjust"
  /\ variants' = [variants EXCEPT ![l.stage] = Adjusted(@, l.label, l.row, l.pct)]
  /\ Go(t, "invalidate", l)
  /\ UNCHANGED <<prompts, caches, boot, clock, started>>

PromoteRead(t) ==
  \E s \in Stage, l \in AnyLabel :
    /\ Request(t)
    /\ variants[s][l].status = "candidate"
    /\ Go(t, "promoteOld", [Blank EXCEPT !.stage = s, !.label = l])
    /\ UNCHANGED <<tables, caches, boot, clock>>

PromoteOld(t) ==
  LET l == loc[t] IN
  /\ pc[t] = "promoteOld"
  /\ \E o \in FirstOf(Champions(variants[l.stage]), NoVariant) :
       Go(t, "promote", [l EXCEPT !.old = o])
  /\ UNCHANGED <<tables, caches, boot, clock, started>>

PromoteCommit(t) ==
  LET l == loc[t] IN
  /\ pc[t] = "promote"
  /\ variants' = [variants EXCEPT ![l.stage] = Promoted(@, l.label, l.old)]
  /\ Go(t, "invalidate", l)
  /\ UNCHANGED <<prompts, caches, boot, clock, started>>

\* deprecate_variant, of a variant in any status.
RetireRead(t) ==
  \E s \in Stage, l \in AnyLabel :
    /\ Request(t)
    /\ variants[s][l].status # "none"
    /\ Go(t, "retire", [Blank EXCEPT !.stage = s, !.label = l, !.row = variants[s][l]])
    /\ UNCHANGED <<tables, caches, boot, clock>>

\* Mutant: the routing cache is left as it is.
RetireCommitUncleared(t) ==
  /\ pc[t] = "retire"
  /\ variants' = [variants EXCEPT ![loc[t].stage] = Deprecated(@, loc[t].label, loc[t].row)]
  /\ End(t)
  /\ UNCHANGED <<prompts, caches, boot, clock, started>>

RetireCommit(t) ==
  LET l == loc[t] IN
  /\ pc[t] = "retire"
  /\ variants' = [variants EXCEPT ![l.stage] = Deprecated(@, l.label, l.row)]
  /\ Go(t, "invalidate", l)
  /\ UNCHANGED <<prompts, caches, boot, clock, started>>

\* invalidate_variant_cache: cache_clear, for every stage.
Invalidate(t) ==
  /\ pc[t] = "invalidate"
  /\ routing' = [s \in Stage |-> NotCached]
  /\ End(t)
  /\ UNCHANGED <<tables, contents, boot, clock, started>>

-----------------------------------------------------------------------------
(* get_prompt_template. *)

\* select_variant with the rows in hand.
Select(t, l) ==
  LET v == Route(l.rows, l.bucket) IN
  IF v = NoVariant THEN Go(t, "certified", l)
  ELSE Go(t, "content", [l EXCEPT !.label = v, !.prompt = l.rows[v].prompt])

ServeLookup(t) ==
  \E s \in Stage, b \in Bucket :
    LET l == [Blank EXCEPT !.stage = s, !.bucket = b] IN
    /\ Ready(t)
    /\ IF routing[s].known THEN Select(t, [l EXCEPT !.rows = routing[s].rows])
       ELSE Go(t, "load", l)
    /\ UNCHANGED <<tables, caches, boot, clock, started>>

\* A read that fails gives the empty tuple.
ServeLoad(t) ==
  LET l == loc[t] IN
  /\ pc[t] = "load"
  /\ \/ Go(t, "store", [l EXCEPT !.rows = Active(l.stage)])
     \/ "read" \in Faults /\ Go(t, "store", [l EXCEPT !.fault = TRUE])
  /\ UNCHANGED <<tables, caches, boot, clock, started>>

\* lru_cache keeps an entry another thread has stored meanwhile, and this call
\* goes on with its own result.
ServeStore(t) ==
  LET l == loc[t] IN
  /\ pc[t] = "store"
  /\ routing' = IF routing[l.stage].known THEN routing
                ELSE [routing EXCEPT ![l.stage] = [known |-> TRUE, rows |-> l.rows]]
  /\ Select(t, l)
  /\ UNCHANGED <<tables, contents, boot, clock, started>>

ServeContent(t) ==
  LET l == loc[t] IN
  /\ pc[t] = "content"
  /\ Go(t, CASE contents[l.prompt] = "unknown" -> "fetch"
             [] contents[l.prompt] = "missing" -> "certified"
             [] contents[l.prompt] = "known" -> "answer", l)
  /\ UNCHANGED <<tables, caches, boot, clock, started>>

\* get_prompt and the store of its result, None for a read that failed.
Fetched(p, content) ==
  contents' = IF contents[p] = "unknown" THEN [contents EXCEPT ![p] = content] ELSE contents

ServeFetch(t) ==
  LET l == loc[t] IN
  /\ pc[t] = "fetch"
  /\ \/ Fetched(l.prompt, "known") /\ Go(t, "answer", l)
     \/ /\ "read" \in Faults
        /\ Fetched(l.prompt, "missing")
        /\ Go(t, "certified", [l EXCEPT !.fault = TRUE])
  /\ UNCHANGED <<tables, routing, boot, clock, started>>

\* get_certified_prompt, or the fallback template; which of several certified
\* prompts has the latest changed_at is not tracked.
ServeCertified(t) ==
  LET l == [loc[t] EXCEPT !.label = NoVariant] IN
  /\ pc[t] = "certified"
  /\ \/ \E p \in FirstOf(CertifiedIn(l.stage), NoPrompt) :
          Go(t, IF p = NoPrompt THEN "answer" ELSE "remember", [l EXCEPT !.prompt = p])
     \/ /\ "read" \in Faults
        /\ Go(t, "answer", [l EXCEPT !.prompt = NoPrompt, !.fault = TRUE])
  /\ UNCHANGED <<tables, caches, boot, clock, started>>

\* The content of that prompt is cached with a read of its own.
ServeRemember(t) ==
  LET l == loc[t] IN
  /\ pc[t] = "remember"
  /\ Fetched(l.prompt, "known") \/ ("read" \in Faults /\ Fetched(l.prompt, "missing"))
  /\ Go(t, "answer", l)
  /\ UNCHANGED <<tables, routing, boot, clock, started>>

ServeAnswer(t) ==
  /\ pc[t] = "answer"
  /\ End(t)
  /\ UNCHANGED <<tables, caches, boot, clock, started>>

-----------------------------------------------------------------------------
(* Start-up. *)

BootDone == boot' = BootFrom(boot.todo \ {boot.stage})

\* create_prompt of the seed; its error makes the seeding pass on to the next
\* stage.
SeedCreate(s) ==
  IF prompts[Seed[s]].status # "absent" THEN BootDone /\ UNCHANGED prompts
  ELSE /\ prompts' = [prompts EXCEPT ![Seed[s]] = [status |-> "draft", stage |-> s]]
       /\ boot' = [boot EXCEPT !.at = "certify", !.record = Seed[s]]

\* get_certified_prompt of the stage gives None when there is none and when the
\* read fails.
SeedCheck ==
  LET s == boot.stage IN
  /\ boot.at = "check"
  /\ \/ \E p \in CertifiedIn(s) :
          boot' = [boot EXCEPT !.at = "champion", !.record = p] /\ UNCHANGED prompts
     \/ (CertifiedIn(s) = {} \/ "read" \in Faults) /\ SeedCreate(s)
  /\ UNCHANGED <<variants, caches, pc, loc, clock, started>>

SeedCertify ==
  /\ boot.at = "certify"
  /\ \E p \in FirstOf(CertifiedIn(boot.stage), NoPrompt) :
       prompts' = Certified(boot.record, p)
  /\ boot' = [boot EXCEPT !.at = "champion"]
  /\ UNCHANGED <<variants, caches, pc, loc, clock, started>>

\* _ensure_champion_variant: its own label may be taken by a row that is no
\* champion any more, an error it only logs.
SeedChampion ==
  LET s == boot.stage
      p == boot.record
  IN
  /\ boot.at = "champion"
  /\ IF Champions(variants[s]) = {} /\ variants[s][p].status = "none"
     THEN /\ variants' = [variants EXCEPT ![s][p] =
                            [status |-> "champion", prompt |-> p, pct |-> Full,
                             created |-> clock]]
          /\ clock' = clock + 1
          /\ routing' = [r \in Stage |-> NotCached]
     ELSE UNCHANGED <<variants, clock, routing>>
  /\ BootDone
  /\ UNCHANGED <<prompts, contents, pc, loc, started>>

\* A transaction of the seeding fails after the first read: the stage is left as
\* it is.
SeedFails ==
  /\ "read" \in Faults
  /\ boot.at # "up"
  /\ BootDone
  /\ UNCHANGED <<tables, caches, pc, loc, clock, started>>

\* check_connection is false, or seed_from_yaml raised.
SeedSkipped ==
  /\ "offline" \in Faults
  /\ boot = BootFrom(Stage)
  /\ boot' = BootFrom({})
  /\ UNCHANGED <<tables, caches, pc, loc, clock, started>>

\* The process dies and is started again: what it kept in memory is gone.
Restart ==
  /\ "restart" \in Faults
  /\ routing' = [s \in Stage |-> NotCached]
  /\ contents' = [p \in Prompt |-> "unknown"]
  /\ pc' = [t \in Thread |-> "idle"]
  /\ loc' = [t \in Thread |-> Blank]
  /\ boot' = BootFrom(Stage)
  /\ UNCHANGED <<tables, clock, started>>

-----------------------------------------------------------------------------
PromptRequest(t) ==
  CreateRead(t) \/ CreateInsert(t) \/ CertifyRead(t) \/ CertifyPrev(t)
  \/ CertifyCommit(t) \/ DeprecateRead(t) \/ DeprecateCommit(t)

VariantRequest(t) ==
  StartRead(t) \/ StartLabel(t) \/ StartTotal(t) \/ StartInsert(t)
  \/ AdjustRead(t) \/ AdjustTotal(t) \/ AdjustCommit(t)
  \/ PromoteRead(t) \/ PromoteOld(t) \/ PromoteCommit(t)
  \/ RetireRead(t) \/ RetireCommit(t) \/ Invalidate(t)

Serve(t) ==
  ServeLookup(t) \/ ServeLoad(t) \/ ServeStore(t) \/ ServeContent(t)
  \/ ServeFetch(t) \/ ServeCertified(t) \/ ServeRemember(t) \/ ServeAnswer(t)

Seeding == SeedCheck \/ SeedCertify \/ SeedChampion \/ SeedFails \/ SeedSkipped

Next ==
  \/ \E t \in Thread : PromptRequest(t) \/ VariantRequest(t) \/ Serve(t)
  \/ Seeding
  \/ Restart

Spec == Init /\ [][Next]_vars

-----------------------------------------------------------------------------
(* Properties. *)

\* registry.py:224, "Exactly one certified prompt per stage at a time": at most
\* one, through every certification, deprecation and seeding.
OneCertified == \A s \in Stage : Cardinality(CertifiedIn(s)) <= 1

\* models.py:79, "Exactly one CHAMPION per stage": at most one.
OneChampion == \A s \in Stage : Cardinality(Champions(variants[s])) <= 1

\* models.py:80: the candidates' percentages never add up to more than 100, which
\* start_rollout and adjust_rollout check before they write.
CandidatesFit ==
  \A s \in Stage : TotalShare(variants[s], Candidates(variants[s])) <= Full

\* The counts of a stage that each request checks in one statement and relies on
\* in a later one (registry.py:236, 360, 478).
OnePerStage == OneCertified /\ OneChampion /\ CandidatesFit

\* routing.py:13-20: what the operators configured is what is served: every
\* candidate gets exactly its percentage of the sessions, the champion the rest.
SharesExact ==
  \A s \in Stage :
    LET rows == variants[s] IN
    /\ \A c \in Candidates(rows) : Cardinality(Served(rows, c)) = rows[c].pct
    /\ \A c \in Champions(rows) :
         Cardinality(Served(rows, c)) = Full - TotalShare(rows, Candidates(rows))

\* registry.py:746-753: an answer none of whose reads failed is the variant the
\* tables select for the session at that moment, else the certified prompt, else
\* the fallback: the caches never show when requests come one at a time.
ServesCurrent ==
  \A t \in Thread : pc[t] = "answer" /\ ~loc[t].fault =>
    LET l == loc[t]
        v == Route(variants[l.stage], l.bucket)
    IN  /\ l.label = v
        /\ v # NoVariant => l.prompt = variants[l.stage][v].prompt
        /\ v = NoVariant => l.prompt \in FirstOf(CertifiedIn(l.stage), NoPrompt)

\* What an operator's request has settled stays settled, however requests and
\* start-ups overlap: the prompt a certification targets is certified when its
\* transaction commits (registry.py:222), also when it was certified meanwhile and
\* is found as the one to replace; a stage loses its last champion only by a
\* retirement of it (registry.py:504); and once a stage's seed has been certified,
\* no start-up replaces what has been certified since (registry.py:658).
OutcomeStands ==
  [][/\ \A t \in Thread :
          CertifyCommit(t) => prompts'[loc[t].prompt].status = "certified"
     /\ \A s \in Stage :
          Champions(variants[s]) # {} /\ Champions(variants'[s]) = {}
          => \E t \in Thread : RetireCommit(t) /\ loc[t].label \in Champions(variants[s])
     /\ Seeding => \A s \in Stage :
          prompts[Seed[s]].status \in {"certified", "deprecated"}
          => CertifiedIn(s) \subseteq CertifiedIn(s)']_vars

\* registry.py:316: only a prompt that was certified is put in traffic, so no
\* answer ever has a draft, whatever operators do while it is put together.
NoDraftServed ==
  \A t \in Thread : pc[t] = "answer" /\ loc[t].prompt # NoPrompt =>
    prompts[loc[t].prompt].status # "draft"

-----------------------------------------------------------------------------
(* What the repository says of the program and the program does not do. *)

\* registry.py:749-750, "the routing cache is cleared by variant mutations so that
\* operator changes take effect on the next request": with no request under
\* way, a cached entry is what the table holds.
CacheFresh ==
  (\A t \in Thread : pc[t] = "idle") =>
    \A s \in Stage : routing[s].known => routing[s].rows = Active(s)

\* registry.py:747: if the table has a champion for the stage, a request none of
\* whose own reads failed is served a variant.
ServesVariant ==
  \A t \in Thread : pc[t] = "answer" /\ ~loc[t].fault =>
    (Champions(variants[loc[t].stage]) # {} => loc[t].label # NoVariant)

\* registry.py:659, "Also ensures a CHAMPION variant exists for every certified
\* prompt (creates one if absent)".
SeedingEnsuresChampion ==
  [][SeedChampion => Champions(variants'[boot.stage]) # {}]_vars

\* registry.py:658, "If a certified prompt for a stage already exists, it is left
\* unchanged".
SeedingLeavesCertified ==
  [][Seeding => \A s \in Stage : CertifiedIn(s) \subseteq CertifiedIn(s)']_vars

\* registry.py:656, "Seed the four inline prompts as v1.0.0 certified.
\* Idempotent": seeding leaves no stage with a draft of the seed and nothing
\* certified.
SeedingCompletes ==
  boot.at = "up" => \A s \in Stage :
    prompts[Seed[s]].status = "draft" => CertifiedIn(s) # {}

\* README.md:177, "agents load the certified prompt for their stage at runtime":
\* what a stage with a certified prompt is served is not a deprecated one.
ServesCertified ==
  \A t \in Thread :
    pc[t] = "answer" /\ loc[t].prompt # NoPrompt /\ CertifiedIn(loc[t].stage) # {}
    => prompts[loc[t].prompt].status # "deprecated"
=============================================================================
