-------------------------------- MODULE Rules --------------------------------
(***************************************************************************)
(* The rule table of daemon/src/rules.rs: how conf/rules.toml becomes a    *)
(* table, and which rule answers an event.  A file is the sequence of its  *)
(* entries [id, key, val]: id is the <id> of the section [rules.<id>],     *)
(* val what the value means for that key, Junk when it has the wrong type  *)
(* or is not one of the values the key knows.                              *)
(***************************************************************************)
EXTENDS Integers, Sequences, FiniteSets, SequencesExt

CONSTANTS Ids,       \* rule ids
          NoId,      \* another section, or no rule
          RPkg,      \* packages
          Junk,      \* a value the key does not understand
          Files,     \* what conf/rules.toml may hold at startup
          Edits,     \* and at a reload
          LastDay,   \* bound: days go up to LastDay
          LastTick   \* bound: ages of a hit go up to LastTick

VARIABLES text,      \* history: the last file that was read
          rules,     \* self.rules, a sequence
          last_hit,  \* Rule::last_hit as ages, by rule id and package
          today      \* the local date

rvars == <<text, rules, last_hit, today>>

Unset == -1
WakeSources == {"broadcast", "service"}
AnySource == "any"

(* The values that are checked before they replace what was there; of the  *)
(* others a bad one counts as 0 or as the empty list.                      *)
Checked == {"condition", "source", "action", "expires_at"}
Clamped == {"throttle", "after_seconds"}
Known   == Checked \cup Clamped \cup {"priority", "applies_to"}

(* What a value of the right type means, by key.                           *)
Meanings(key) ==
    CASE key \in Clamped \cup {"priority"} -> Int
      [] key = "applies_to" -> SUBSET (RPkg \cup {"*"})
      [] key = "condition"  -> {"always", "leave", "wakeup", "focus"}
      [] key = "source"     -> WakeSources \cup {"pendingintent"}
      [] key = "action"     -> {"suppress", "exempt", "freeze", "discard"}
      [] key = "expires_at" -> 0 .. LastDay

ASSUME RulesAssumption ==
    /\ NoId \notin Ids /\ LastDay \in Nat
    /\ \A f \in Files \cup Edits :
          /\ Len(f) \in Nat /\ DOMAIN f = 1 .. Len(f)
          /\ \A i \in DOMAIN f :
                /\ f[i].id \in Ids \cup {NoId}
                /\ (f[i].key \in Known /\ f[i].val # Junk) => f[i].val \in Meanings(f[i].key)

-----------------------------------------------------------------------------
(* Reading the file                                                        *)

(* Rule as from_toml pushes it at the first mention of its id.             *)
Blank(id) ==
    [id |-> id, priority |-> 0, applies_to |-> {}, condition |-> "always",
     source |-> AnySource, action |-> "unset", throttle |-> 0,
     after_seconds |-> Unset, expires_at |-> Unset]

(* int_of, str_of and str_array_of with the checks of from_toml.           *)
Taken(e, old) ==
    CASE e.key \in Checked      -> IF e.val = Junk THEN old ELSE e.val
      [] e.key \in Clamped      -> IF e.val = Junk \/ e.val < 0 THEN 0 ELSE e.val
      [] e.key = "priority"     -> IF e.val = Junk THEN 0 ELSE e.val
      [] e.key = "applies_to"   -> IF e.val = Junk THEN {} ELSE e.val

Mentioned(t, id) == \E i \in DOMAIN t : t[i].id = id

(* One entry: a new id is appended, a known one is completed in place.     *)
Merge_restart(t, e) ==
    Append(SelectSeq(t, LAMBDA r : r.id # e.id),
           IF e.key \in Known THEN [Blank(e.id) EXCEPT ![e.key] = Taken(e, @)] ELSE Blank(e.id))
Merge(t, e) ==
    IF e.id = NoId THEN t
    ELSE LET k == IF Mentioned(t, e.id) THEN t ELSE Append(t, Blank(e.id))
         IN  [i \in DOMAIN k |-> IF k[i].id = e.id /\ e.key \in Known
                                 THEN [k[i] EXCEPT ![e.key] = Taken(e, @)] ELSE k[i]]

(* RuleTable::from_toml: a rule without an action is not retained.         *)
Retain(t, r) == IF r.action # "unset" THEN Append(t, r) ELSE t
FromToml(f)  == FoldLeft(Retain, <<>>, FoldLeft(Merge, <<>>, f))

-----------------------------------------------------------------------------
(* Answering                                                               *)

(* Rule::matches; known says whether the local date could be read.         *)
Throttled(r, p) ==
    r.throttle > 0 /\ last_hit[r.id][p] # Unset /\ last_hit[r.id][p] < r.throttle

Matches(r, p, cond, s, known) ==
    /\ r.applies_to = {} \/ "*" \in r.applies_to \/ p \in r.applies_to
    /\ r.condition = "always" \/ r.condition = cond
    /\ r.source = AnySource \/ r.source = s
    /\ ~(r.expires_at # Unset /\ known /\ today >= r.expires_at)
    /\ ~Throttled(r, p)

(* find_index: the matching rules, sorted by priority and then by place.   *)
Before_place(i, j) == i < j
Before(i, j) ==
    \/ rules[i].priority > rules[j].priority
    \/ rules[i].priority = rules[j].priority /\ i < j

FindIndex(p, cond, s, known) ==
    LET idxs == {i \in DOMAIN rules : Matches(rules[i], p, cond, s, known)}
        sorted == CHOOSE t \in [1 .. Cardinality(idxs) -> idxs] :
                     \A a, b \in DOMAIN t : a < b => Before(t[a], t[b])
    IN  IF idxs = {} THEN 0 ELSE sorted[1]

RulesInit ==
    /\ \E f \in Files : text = f /\ rules = FromToml(f)
    /\ last_hit = [id \in Ids |-> [p \in RPkg |-> Unset]]
    /\ today = 0

(* reload_policy, when the file can be read: the throttles start anew.  A  *)
(* file that is missing or not TOML changes nothing and is no step here.   *)
RReload(f) ==
    /\ text' = f /\ rules' = FromToml(f)
    /\ last_hit' = [id \in Ids |-> [p \in RPkg |-> Unset]]
    /\ UNCHANGED today

(* RuleTable::hit; a peek is the same answer with nothing recorded.        *)
Hit(p, cond, s, known) ==
    LET i == FindIndex(p, cond, s, known)
    IN  /\ i # 0 /\ rules[i].throttle > 0
        /\ last_hit' = [last_hit EXCEPT ![rules[i].id][p] = 0]
        /\ UNCHANGED <<text, rules, today>>

RElapse ==
    /\ last_hit' = [id \in Ids |-> [p \in RPkg |->
                       IF last_hit[id][p] \in {Unset, LastTick} THEN last_hit[id][p]
                       ELSE last_hit[id][p] + 1]]
    /\ UNCHANGED <<text, rules, today>>

NextDay == today < LastDay /\ today' = today + 1
           /\ UNCHANGED <<text, rules, last_hit>>

Questions == {<<"leave", AnySource>>, <<"always", AnySource>>}
             \cup {<<"wakeup", s>> : s \in WakeSources}

RulesNext ==
    \/ \E f \in Edits : RReload(f)
    \/ \E p \in RPkg, q \in Questions, known \in BOOLEAN : Hit(p, q[1], q[2], known)
    \/ RElapse \/ NextDay

RulesSpec == RulesInit /\ [][RulesNext]_rvars

-----------------------------------------------------------------------------

Mentions(id)   == {i \in DOMAIN text : text[i].id = id}
Settings(id, k) == {i \in Mentions(id) : text[i].key = k /\ (k \in Checked => text[i].val # Junk)}

(* The table says what the file says, however the sections of the rules    *)
(* are split and mixed (from_toml): exactly the rules with a valid action  *)
(* are there, in the order of their first mention, and every field is the  *)
(* last valid setting of it or the default; no duration is negative.       *)
ParsedAsWritten ==
    /\ {rules[i].id : i \in DOMAIN rules} = {id \in Ids : Settings(id, "action") # {}}
    /\ \A i, j \in DOMAIN rules :
          i < j => Min(Mentions(rules[i].id)) < Min(Mentions(rules[j].id))
    /\ \A i \in DOMAIN rules, k \in Known :
          LET id == rules[i].id
              set == Settings(id, k)
          IN  rules[i][k] = IF set = {} THEN Blank(id)[k] ELSE Taken(text[Max(set)], Blank(id)[k])
    /\ \A i \in DOMAIN rules : rules[i].throttle >= 0 /\ rules[i].after_seconds >= Unset

(* The answer to an event is a rule that matches it and gives way to no    *)
(* other that matches: none of a higher priority, none of the same         *)
(* priority that stands before it (find_index).  No answer means that no   *)
(* rule matches: a throttled rule steps aside for the next one.            *)
BestAnswers ==
    \A p \in RPkg, q \in Questions, known \in BOOLEAN :
        LET i    == FindIndex(p, q[1], q[2], known)
            fits == {k \in DOMAIN rules : Matches(rules[k], p, q[1], q[2], known)}
        IN  IF i = 0 THEN fits = {}
            ELSE /\ i \in fits
                 /\ \A k \in fits \ {i} : \/ rules[k].priority < rules[i].priority
                                          \/ rules[k].priority = rules[i].priority /\ i < k
=============================================================================
