-------------------------------- MODULE Settings --------------------------------
(***************************************************************************)
(* The settings page: settings_service.py over env_file.py, and what       *)
(* load_config makes of the file at the next start.                        *)
(*                                                                         *)
(* A page is rendered in a worker thread, also while the event loop is     *)
(* saving another form; a save holds the event loop from reading the file  *)
(* to writing it, so saves never overlap.  Writing truncates the file and  *)
(* then fills it.  A form is submitted as it was rendered, perhaps long    *)
(* before, but for the fields the administrator changed.                   *)
(*                                                                         *)
(* Values are stripped strings without quotes or comments of their own,    *)
(* the process inherits no variable of these names from its environment,   *)
(* and no key stands in for another but the older keys of Legacy (the      *)
(* SMTP_ keys that fall back to those of the mailbox are left out).        *)
(***************************************************************************)
EXTENDS Integers, Sequences, SequencesExt, FiniteSets

CONSTANTS
    FieldList,  \* _FIELDS: the keys of the form, in order
    Kind,       \* of each key: "text", "number", "bool" or "secret"
    Default,    \* of each key: value where the file has none; of a box "on" or "off"
    Legacy,     \* of each key: the older key that is read when it has no value
    OtherKeys,  \* keys of the file that the form does not show
    Exclusive,  \* boxes that load_config refuses when all are on
    Typed,      \* of each key that is not a box: what administrators type
    Stored(_, _), \* what save_settings writes for a value of a key
    Parsed(_, _), \* what load_config makes of a value of a key
    Malformed,  \* of each key: values save_settings refuses
    Unusable,   \* of each key: values load_config refuses, Blank if it requires one
    FileValues, \* values of keys in the file, at the start or as they are stored
    Initial,    \* contents of the file at the start
    Browsers,
    MaxEdits,   \* bound: fields changed in one form
    MaxSaves,   \* bound: submissions
    MaxFaults   \* bound: crashes

Fields == ToSet(FieldList)
Keys   == Fields \cup OtherKeys

Blank == ""
Mask  == "********"

\* A line of the file is an assignment, or has no key: a comment, an empty line, or
\* the comment write_env_pairs puts above new keys.
NoKey     == "no key"
Comments  == {"comment", "added", Blank}
Defaults  == {Default[k] : k \in Fields}
Values    == FileValues \cup Comments \cup {"true", "false"} \cup Defaults
                \cup UNION {Typed[k] : k \in DOMAIN Typed}
Lines     == [key : Keys \cup {NoKey}, value : Values]
EmptyLine == [key |-> NoKey, value |-> Blank]
AddedLine == [key |-> NoKey, value |-> "added"]

ASSUME SettingsAssumption ==
    /\ \A i, j \in DOMAIN FieldList : FieldList[i] = FieldList[j] => i = j
    /\ FieldList \in Seq(Fields) /\ NoKey \notin Keys
    /\ Kind \in [Fields -> {"text", "number", "bool", "secret"}]
    /\ DOMAIN Typed = {k \in Fields : Kind[k] # "bool"}
    /\ \A k \in Fields :
          /\ Legacy[k] = k \/ Legacy[k] \in OtherKeys \ Fields
          /\ Kind[k] = "bool" => Default[k] \in {"on", "off"}
          /\ Kind[k] = "secret" => Default[k] = Blank /\ Legacy[k] = k
    /\ Initial \subseteq Seq(Lines)
    /\ \A k \in DOMAIN Typed :
          /\ \A v \in Values : /\ Stored(k, v) \in Values
                               /\ Parsed(k, Stored(k, v)) = Parsed(k, v)
          /\ Legacy[k] = k \/ \A v \in Values \ {Blank} : Stored(k, v) # Blank
    /\ DOMAIN Malformed = DOMAIN Typed /\ DOMAIN Unusable = DOMAIN Typed
    /\ Exclusive \subseteq {k \in Fields : Kind[k] = "bool"} /\ Exclusive # {}
    /\ {MaxEdits, MaxSaves, MaxFaults} \subseteq Nat

VARIABLES
    file,     \* the lines of .env
    save,     \* the save in progress: the event loop is "idle" or "writing"
    browser,  \* each browser: no page, a page asked for, or a form
    up,       \* the process runs
    saves,    \* submissions so far
    faults    \* crashes so far

vars == <<file, save, browser, up, saves, faults>>

-------------------------------------------------------------------------------
(* env_file.py *)

KeysOf(lines) == {lines[i].key : i \in DOMAIN lines} \ {NoKey}

Occurrences(lines, k) == {i \in DOMAIN lines : lines[i].key = k}

\* The last assignment of a key counts.
read_env_pairs(lines) ==
    [k \in KeysOf(lines) |->
        lines[CHOOSE i \in Occurrences(lines, k) :
                 \A j \in Occurrences(lines, k) : j <= i].value]

\* Places in the form of the updated keys that the file does not have.
Missing(lines, updates) ==
    {i \in DOMAIN FieldList : FieldList[i] \in DOMAIN updates \ KeysOf(lines)}

Rank(S, i) == Cardinality({j \in S : j <= i})

\* These keys in the order of the form.
NewKeys(lines, updates) ==
    LET missing == Missing(lines, updates)
    IN  [n \in 1 .. Cardinality(missing) |->
            FieldList[CHOOSE i \in missing : Rank(missing, i) = n]]

\* The first assignment of an updated key is rewritten, other lines stay.
Rewritten(lines, updates) ==
    LET IsFirst(i) == \A j \in 1 .. i - 1 : lines[j].key # lines[i].key
    IN  [i \in DOMAIN lines |->
            IF lines[i].key \in DOMAIN updates /\ IsFirst(i)
              THEN [lines[i] EXCEPT !.value = updates[lines[i].key]]
              ELSE lines[i]]

\* New keys come at the end.
write_env_pairs(lines, updates) ==
    LET new == NewKeys(lines, updates)
        gap == IF lines = <<>> \/ Last(lines) = EmptyLine THEN <<>> ELSE <<EmptyLine>>
    IN  IF new = <<>> THEN Rewritten(lines, updates)
          ELSE Rewritten(lines, updates) \o gap \o <<AddedLine>>
               \o [i \in DOMAIN new |-> [key |-> new[i], value |-> updates[new[i]]]]

-------------------------------------------------------------------------------
(* load_settings: what the page shows. *)

Get(pairs, k) == IF k \in DOMAIN pairs THEN pairs[k] ELSE Blank

\* Value in the file under this key or the older one, else the default.
RawValue(pairs, k) ==
    IF Get(pairs, k) # Blank THEN Get(pairs, k)
    ELSE IF Get(pairs, Legacy[k]) # Blank THEN Get(pairs, Legacy[k])
    ELSE IF Kind[k] = "bool" THEN Blank ELSE Default[k]

\* A box is ticked only for "true" (settings.html).
Display(pairs, k) ==
    LET raw == RawValue(pairs, k)
    IN  CASE Kind[k] = "bool"                    -> IF raw = "true" THEN "on" ELSE "off"
          [] Kind[k] = "secret" /\ raw # Blank   -> Mask
          [] OTHER                               -> raw

load_settings(lines) == [k \in Fields |-> Display(read_env_pairs(lines), k)]

-------------------------------------------------------------------------------
(* save_settings: what a form changes. *)

\* Mistake: the mask is stored like a typed password.
SkippedButSecrets(form, k) == Kind[k] \in {"text", "number"} /\ form[k] = Blank

\* A secret left masked and other fields left blank stay as they are.
Skipped(form, k) ==
    \/ Kind[k] = "secret" /\ form[k] = Mask
    \/ Kind[k] \in {"text", "number"} /\ form[k] = Blank

\* Mistake: a box that is not ticked is not in the form, so it is left alone.
UpdatesTicked(form) ==
    [k \in {x \in Fields : ~Skipped(form, x) /\ form[x] # "off"} |->
        IF Kind[k] = "bool" THEN "true" ELSE Stored(k, form[k])]

Updates(form) ==
    [k \in {x \in Fields : ~Skipped(form, x)} |->
        IF Kind[k] = "bool" THEN (IF form[k] = "on" THEN "true" ELSE "false")
                            ELSE Stored(k, form[k])]

Errors(form) ==
    \E k \in DOMAIN Typed : ~Skipped(form, k) /\ form[k] \in Malformed[k]

-------------------------------------------------------------------------------
(* load_config: the settings in effect. *)

Truthy == {"1", "true", "yes", "on"}

\* The value os.environ has: a key that is present but blank takes no default.
EnvValue(pairs, k) ==
    IF Get(pairs, k) # Blank            THEN pairs[k]
    ELSE IF Get(pairs, Legacy[k]) # Blank THEN pairs[Legacy[k]]
    ELSE IF k \in DOMAIN pairs          THEN Blank ELSE Default[k]

Effective(lines, k) ==
    LET pairs == read_env_pairs(lines)
    IN  IF Kind[k] # "bool"          THEN Parsed(k, EnvValue(pairs, k))
        ELSE IF k \notin DOMAIN pairs THEN Default[k]
        ELSE IF pairs[k] \in Truthy   THEN "on" ELSE "off"

\* load_config returns rather than raises.
Accepts(lines) ==
    /\ \A k \in DOMAIN Typed : Effective(lines, k) \notin Unusable[k]
    /\ \E k \in Exclusive : Effective(lines, k) = "off"

-------------------------------------------------------------------------------
(* The page, the saves and the process. *)

NoForm  == [k \in Fields |-> Blank]
Away    == [at |-> "away", shown |-> NoForm]
NotBusy == [pc |-> "idle", lines |-> <<>>, was |-> <<>>, form |-> NoForm,
            shown |-> NoForm]

Init ==
    /\ file \in {lines \in Initial : Accepts(lines)}
    /\ save = NotBusy
    /\ browser = [b \in Browsers |-> Away]
    /\ up = TRUE
    /\ saves = 0 /\ faults = 0

\* GET /settings is taken from the event loop to a worker thread.
settings_page(b) ==
    /\ up /\ save.pc = "idle" /\ browser[b].at # "asked"
    /\ browser' = [browser EXCEPT ![b] = [Away EXCEPT !.at = "asked"]]
    /\ UNCHANGED <<file, save, up, saves, faults>>

\* The thread reads the file, also while a save is writing it.
Render(b) ==
    /\ up /\ browser[b].at = "asked"
    /\ browser' = [browser EXCEPT ![b] = [at |-> "form", shown |-> load_settings(file)]]
    /\ UNCHANGED <<file, save, up, saves, faults>>

\* What an administrator may put into a field.
Inputs(k) == IF Kind[k] = "bool" THEN {"on", "off"} ELSE Typed[k]

\* The forms made from the one shown by changing some fields.
Filled(shown) ==
    UNION {{[k \in Fields |-> IF k \in edits THEN new[k] ELSE shown[k]] :
               new \in {f \in [edits -> UNION {Inputs(k) : k \in edits}] :
                           \A k \in edits : f[k] \in Inputs(k)}} :
           edits \in {S \in SUBSET Fields : Cardinality(S) <= MaxEdits}}

\* POST /settings: save_settings up to the truncation of the file, unless a value is
\* refused.  History of the save: the form, the page it was made from, and the
\* file before.
settings_submit(b) ==
    /\ up /\ save.pc = "idle" /\ browser[b].at = "form" /\ saves < MaxSaves
    /\ \E form \in Filled(browser[b].shown) :
         IF Errors(form)
           THEN UNCHANGED <<file, save>>
           ELSE /\ save' = [pc |-> "writing", was |-> file, form |-> form,
                            lines |-> write_env_pairs(file, Updates(form)),
                            shown |-> browser[b].shown]
                /\ file' = <<>>
    /\ browser' = [browser EXCEPT ![b] = Away]
    /\ saves' = saves + 1
    /\ UNCHANGED <<up, faults>>

\* write_text: the file gets its new contents.
Write ==
    /\ up /\ save.pc = "writing"
    /\ file' = save.lines
    /\ save' = NotBusy
    /\ UNCHANGED <<browser, up, saves, faults>>

\* The process dies; forms stay open in the browsers.
Crash ==
    /\ up /\ faults < MaxFaults
    /\ up' = FALSE /\ save' = NotBusy /\ faults' = faults + 1
    /\ browser' = [b \in Browsers |-> IF browser[b].at = "asked" THEN Away
                                                                ELSE browser[b]]
    /\ UNCHANGED <<file, saves>>

\* main: the program starts if load_config accepts the file.
Start ==
    /\ ~up /\ Accepts(file)
    /\ up' = TRUE
    /\ UNCHANGED <<file, save, browser, saves, faults>>

Next ==
    \/ \E b \in Browsers : settings_page(b) \/ Render(b) \/ settings_submit(b)
    \/ Write \/ Crash \/ Start

Spec == Init /\ [][Next]_vars

-------------------------------------------------------------------------------
(* Properties. *)

\* What a field of a form may hold: the mask only where a password is shown.
FormValues(k) == CASE Kind[k] = "bool"   -> {"on", "off"}
                   [] Kind[k] = "secret" -> Values \cup {Mask}
                   [] OTHER              -> Values

Forms == {f \in [Fields -> Values \cup {Mask, "on", "off"}] :
            \A k \in Fields : f[k] \in FormValues(k)}

\* The type of every variable.  The mask is no value of the file.
TypeOK ==
    /\ file \in Seq(Lines)
    /\ save \in [pc : {"idle", "writing"}, lines : Seq(Lines), was : Seq(Lines),
                 form : Forms \cup {NoForm}, shown : Forms \cup {NoForm}]
    /\ browser \in [Browsers -> [at : {"away", "asked", "form"},
                                 shown : Forms \cup {NoForm}]]
    /\ up \in BOOLEAN
    /\ saves \in 0 .. MaxSaves
    /\ faults \in 0 .. MaxFaults

\* The setting that a field of a form stands for.
Taken(form, k)     == IF Kind[k] = "bool" THEN form[k] ELSE Parsed(k, form[k])
Masked(shown, k)   == Kind[k] = "secret" /\ shown[k] = Mask
Repeated(lines, k) == \E i, j \in Occurrences(lines, k) : i # j

\* A save that is written to its end leaves every comment, every key the form does
\* not show and the order of the lines as they were.  Of a field the administrator
\* did not change it keeps the value in effect or brings back the one the page
\* showed, whatever was saved since and also when the page was rendered while a
\* save was writing; a password the page showed masked keeps its value.
\* ("structure-preserving", env_file.py.)
UntouchedStays ==
    [][Write =>
          /\ \A i \in DOMAIN save.was :
                /\ file'[i].key = save.was[i].key
                /\ save.was[i].key \notin Fields => file'[i] = save.was[i]
          /\ \A k \in {x \in Fields : save.form[x] = save.shown[x]} :
                \/ Effective(file', k) = Effective(save.was, k)
                \/ ~Masked(save.shown, k) /\ Effective(file', k) = Taken(save.shown, k)]_vars

\* The program still starts after a save of a form that writes nothing load_config
\* refuses, however old the page of the form is, also where it was rendered while
\* a save was writing and where the defaults of the loader and the boxes of the
\* page differ; left out is an exclusive box that is assigned twice in the file.
\* (load_config: IMAP_USE_SSL and IMAP_USE_STARTTLS.)
StartsAgain ==
    [][Write =>
          \/ ~Accepts(save.was)
          \/ \E k \in DOMAIN Typed :
                ~Skipped(save.form, k) /\ Taken(save.form, k) \in Unusable[k]
          \/ \E k \in Exclusive : Repeated(save.was, k)
          \/ \A k \in Exclusive : save.form[k] = "on"
          \/ Accepts(file')]_vars
===============================================================================
