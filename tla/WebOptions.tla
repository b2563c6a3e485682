----------------------------- MODULE WebOptions -----------------------------
(***************************************************************************)
(* The options of the web client (client/web/src/app.ts): the lifetime of  *)
(* an upload and the style of its credential, the inputs in which they are *)
(* edited, the stored values, and what the settings panel says they are.   *)
(* The credential generator (client/app/src/credential) is modelled by the *)
(* kinds of character each of the twelve positions may get.                *)
(*                                                                         *)
(* Left out: which letter of its kind a position gets, and stored values   *)
(* that another program wrote.                                             *)
(***************************************************************************)
EXTENDS Integers, Sequences, FiniteSets

CONSTANTS
    DurationEntry,       \* bound: <<hours, minutes, seconds>> a user may type
    Minute,              \* seconds in a minute; hours have Minute minutes
    HoursPerDay,
    Presets,             \* FILE_TTL_PRESETS_SECONDS
    DefaultTtl

VARIABLES
    boxes,      \* the checked boxes of the credential style
    style,      \* the stored style
    styleLabel, \* the style the panel says uploads will have
    duration,   \* the three inputs of the lifetime
    ttl,        \* the stored lifetime, 0 when there is none
    ttlLabel,   \* the lifetime the panel says uploads will have
    slider      \* position of the slider over the presets

optionVars == <<boxes, style, styleLabel, duration, ttl, ttlLabel, slider>>
styleVars == <<boxes, style, styleLabel>>
ttlVars == <<duration, ttl, ttlLabel, slider>>

-----------------------------------------------------------------------------
(* Lifetimes.                                                              *)

Hour == Minute * Minute
MaxTtl == HoursPerDay * Hour

\* The presets and the default are lifetimes a file may have.
ASSUME OptionsAssumption ==
    /\ Minute \in Nat \ {0} /\ HoursPerDay \in Nat \ {0}
    /\ Presets \in Seq(1 .. MaxTtl) /\ Presets # <<>>
    /\ DefaultTtl \in 1 .. MaxTtl
    /\ DurationEntry \subseteq Int \X Int \X Int

Between(lo, hi, n) == IF n < lo THEN lo ELSE IF n > hi THEN hi ELSE n

Seconds(d) == d[1] * Hour + d[2] * Minute + d[3]

\* clampDurationParts
Clamp(d) ==
    LET c == << Between(0, HoursPerDay, d[1]), Between(0, Minute - 1, d[2]),
                Between(0, Minute - 1, d[3]) >>
    IN  IF Seconds(c) > MaxTtl THEN <<HoursPerDay, 0, 0>> ELSE c

\* durationPartsFromSeconds
Parts(n) ==
    LET m == Between(0, MaxTtl, n)
    IN  Clamp(<<m \div Hour, (m % Hour) \div Minute, m % Minute>>)

Distance(i, n) == IF Presets[i] > n THEN Presets[i] - n ELSE n - Presets[i]

\* nearestFileTtlPresetIndex: the first of the nearest presets
NearestPreset(n) ==
    CHOOSE i \in DOMAIN Presets :
        /\ \A j \in DOMAIN Presets : Distance(i, n) <= Distance(j, n)
        /\ \A j \in 1 .. (i - 1) : Distance(j, n) > Distance(i, n)

\* getEffectiveFileTtlSeconds, for what saveStoredFileTtlSeconds stored
EffectiveTtl == IF ttl = 0 THEN DefaultTtl ELSE Between(1, MaxTtl, ttl)

\* applyFileTtlToUi, after n has been stored
ApplyTtl(n) ==
    /\ duration' = Parts(n)
    /\ ttlLabel' = Parts(n)
    /\ slider' = NearestPreset(n)

\* applyFileTtlPresetIndex, from the slider or one of its ticks
ChoosePreset(i) ==
    /\ ttl' = Presets[i]
    /\ ApplyTtl(Presets[i])
    /\ UNCHANGED styleVars

\* The user edits the inputs; on change, or 200 ms later, they are clamped.
EnterDuration(d) == duration' = d /\ UNCHANGED <<ttl, ttlLabel, slider, styleVars>>
ClampDuration ==
    /\ duration' = Clamp(duration)
    /\ UNCHANGED <<ttl, ttlLabel, slider, styleVars>>

\* MUTATION of ConfirmDuration: what the inputs hold is stored as it is.
ConfirmDurationUnclamped ==
    /\ Seconds(duration) > 0
    /\ ttl' = Seconds(duration)
    /\ ApplyTtl(Seconds(Clamp(duration)))
    /\ UNCHANGED styleVars

\* handleConfirmFileTtl: nothing is stored when the total is zero
ConfirmDuration ==
    LET total == Seconds(Clamp(duration))
    IN  /\ total > 0
        /\ ttl' = total
        /\ ApplyTtl(total)
        /\ UNCHANGED styleVars

-----------------------------------------------------------------------------
(* Credential styles and the generator.                                    *)

Box == {"uppercase", "lowercase", "word", "hyphen", "first", "last"}
Kind == {"upper", "lower", "digit", "hyphen"}
CredentialLength == 12
Position == 0 .. (CredentialLength - 1)
Half == CredentialLength \div 2
FirstHalf == 0 .. (Half - 1)

Letters(o) == (IF "uppercase" \in o THEN {"upper"} ELSE {})
              \cup (IF "lowercase" \in o THEN {"lower"} ELSE {})

\* isLetterOnlyPosition and isDigitOnlyPosition
LetterOnly(o) == (IF "last" \in o THEN Position \ FirstHalf ELSE {})
                 \cup (IF "first" \in o THEN FirstHalf ELSE {})
DigitOnly(o) == (IF "last" \in o THEN FirstHalf ELSE {})
                \cup (IF "first" \in o THEN Position \ FirstHalf ELSE {})

\* charsetForPosition
Charset(i, o) == IF i \in LetterOnly(o) THEN Letters(o)
                 ELSE IF i \in DigitOnly(o) THEN {"digit"}
                 ELSE Letters(o) \cup {"digit"}

\* MUTATION of ValidStyle: positions that nothing can fill are not looked for.
ValidStyleUnchecked(o) == ~({"first", "last"} \subseteq o)

\* validateCredentialStyle returns null
ValidStyle(o) ==
    /\ ~({"first", "last"} \subseteq o)
    /\ "word" \in o => Letters(o) # {}
    /\ \A i \in Position : Charset(i, o) # {}
    /\ Letters(o) = {} /\ "hyphen" \notin o => LetterOnly(o) = {}

\* pickHyphenIndex: an odd byte chooses among the positions that may hold
\* something else than a letter, {} stands for no hyphen.  With an even number
\* of them, an odd byte never chooses the first, the third, and so on.
RandomHyphens(o) ==
    LET free == Position \ LetterOnly(o)
        before(i) == Cardinality({j \in free : j < i})
        chosen == {(2 * k + 1) % Cardinality(free) : k \in 0 .. 127}
    IN  {{}} \cup (IF "hyphen" \in o /\ free # {}
                     THEN {{i} : i \in {j \in free : before(j) \in chosen}}
                     ELSE {})

\* generateRandomCredential, with the hyphen at the position in h
RandomCredential(o, h) ==
    [i \in Position |-> IF i \in h THEN {"hyphen"} ELSE Charset(i, o)]

\* resolveWordStyleLayout: where the words are; the other half has digits
WordStart(o) == IF "last" \in o /\ "first" \notin o THEN Half ELSE 0
Words(o) == IF "first" \in o THEN FirstHalf
            ELSE IF "last" \in o THEN Position \ FirstHalf ELSE Position
Syllable == 3
InSyllable(i, o) == (i - WordStart(o)) % Syllable
Leading(o) == {i \in Words(o) : InSyllable(i, o) = 0}
Trailing(o) == {i \in Words(o) : InSyllable(i, o) = 2}

\* listWordStyleHyphenSlots, {} for no hyphen
WordHyphens(o) ==
    {{}} \cup (IF "hyphen" \in o
                 THEN {{i} : i \in {5, 6} \cap (Leading(o) \cup Trailing(o))}
                 ELSE {})

\* canLeadingConsonantBeUppercase and shouldUseLeadingUppercase
MayLeadUpper(i, o) == i \in {0, Half} /\ "uppercase" \in o

\* pickConsonant and pickVowel, not asked for an uppercase letter
Plain(o) == IF "lowercase" \in o THEN {"lower"} ELSE {"upper"}

\* ... and asked for one, when the syllable that starts at i may have it
Lead(i, o) == IF ~MayLeadUpper(i, o) THEN Plain(o)
              ELSE IF "lowercase" \in o THEN {"upper", "lower"} ELSE {"upper"}

\* pickTrailingConsonant: some lowercase letter, whatever the style
LastConsonant == {"lower"}

\* generateWordStyleCredential and generateCvcSyllable: the vowel takes the case
\* of a leading hyphen
WordCredential(o, h) ==
    [i \in Position |->
        IF i \notin Words(o) THEN {"digit"}
        ELSE IF i \in h THEN {"hyphen"}
        ELSE IF i \in Leading(o) THEN Lead(i, o)
        ELSE IF i \in Trailing(o) THEN LastConsonant
        ELSE IF i - 1 \in h THEN Lead(i - 1, o) ELSE Plain(o)]

\* readStoredCredentialStyle, for what saveStoredCredentialStyle stored
EffectiveStyle == IF "first" \in style THEN style \ {"last"} ELSE style

\* generateStyledCredential
Credentials(o) ==
    IF "word" \in o THEN {WordCredential(o, h) : h \in WordHyphens(o)}
                    ELSE {RandomCredential(o, h) : h \in RandomHyphens(o)}

\* updateWordStyleCheckboxState
WithWords(o) == IF Letters(o) = {} THEN o \ {"word"} ELSE o

\* A click on a box, and the listeners of its change event.  The box for words is
\* disabled without letters.
Toggle(b) ==
    LET o == IF b \in boxes THEN boxes \ {b} ELSE boxes \cup {b}
    IN  /\ b = "word" => Letters(boxes) # {}
        /\ boxes' = CASE b = "first" /\ b \in o -> o \ {"last"}
                      [] b = "last" /\ b \in o -> o \ {"first"}
                      [] b \in {"uppercase", "lowercase"} -> WithWords(o)
                      [] OTHER -> o
        /\ UNCHANGED <<style, styleLabel, ttlVars>>

\* readCredentialStyleFromInputs
ReadStyle ==
    LET o == IF "first" \in boxes THEN boxes \ {"last"} ELSE boxes
    IN  WithWords(o)

\* handleConfirmCredentialStyle: an invalid style is refused
ConfirmStyle ==
    /\ ValidStyle(ReadStyle)
    /\ style' = ReadStyle
    /\ styleLabel' = ReadStyle
    /\ UNCHANGED <<boxes, ttlVars>>

\* syncFileTtlSettingsUi and syncCredentialStyleSettingsUi, with nothing stored
OptionsInit ==
    /\ boxes = {"uppercase", "lowercase"}
    /\ style = {"uppercase", "lowercase"}
    /\ styleLabel = style
    /\ duration = Parts(DefaultTtl)
    /\ ttl = 0
    /\ ttlLabel = Parts(DefaultTtl)
    /\ slider = NearestPreset(DefaultTtl)

TtlNext ==
    \/ \E i \in DOMAIN Presets : ChoosePreset(i)
    \/ \E d \in DurationEntry : EnterDuration(d)
    \/ ClampDuration
    \/ ConfirmDuration

StyleNext ==
    \/ \E b \in Box : Toggle(b)
    \/ ConfirmStyle

-----------------------------------------------------------------------------
(* Properties.                                                             *)

\* The inputs, the stored values and the labels have their types.
OptionsTypeOK ==
    /\ boxes \subseteq Box
    /\ style \subseteq Box
    /\ styleLabel \subseteq Box
    /\ duration \in Int \X Int \X Int
    /\ ttl \in 0 .. MaxTtl
    /\ ttlLabel \in (0 .. HoursPerDay) \X (0 .. Minute - 1) \X (0 .. Minute - 1)
    /\ slider \in DOMAIN Presets

\* What the panel says is what the next upload asks for, also when the user
\* confirms before the inputs were clamped: the lifetime is at least a second and
\* at most a day, its label stands for exactly that number of seconds, and the
\* slider is at the nearest preset.
SettingsShowWhatSendUses ==
    /\ EffectiveTtl \in 1 .. MaxTtl
    /\ Seconds(ttlLabel) = EffectiveTtl
    /\ \A i \in DOMAIN Presets :
           Distance(slider, EffectiveTtl) <= Distance(i, EffectiveTtl)
    /\ styleLabel = EffectiveStyle

\* What a credential of style o looks like: each position gets something, at most
\* one hyphen and only on demand, digits and letters in their halves, and letters
\* in a case that is enabled.  Words are looser than the boxes say: the
\* hyphen may be in the half for letters, and a word ends in lowercase even when
\* only uppercase is enabled.
Fits(k, o) ==
    LET hyphens == {i \in Position : "hyphen" \in k[i]}
        case == IF "word" \in o THEN Letters(o) \cup {"lower"} ELSE Letters(o)
    IN  /\ \A i \in Position :
            /\ k[i] # {}
            /\ k[i] \ {"digit", "hyphen"} \subseteq case
            /\ i \in LetterOnly(o) => "digit" \notin k[i]
            /\ i \in DigitOnly(o) => k[i] \subseteq {"digit", "hyphen"}
        /\ Cardinality(hyphens) <= (IF "hyphen" \in o THEN 1 ELSE 0)
        /\ "word" \notin o => hyphens \cap LetterOnly(o) = {}

\* The stored style always yields credentials (an upload does not stop after its
\* file was read because generateStyledCredential throws), and they fit it,
\* whatever the order in which boxes were clicked before it was confirmed.
StyleGenerates ==
    /\ ValidStyle(EffectiveStyle)
    /\ Credentials(EffectiveStyle) # {}
    /\ \A k \in Credentials(EffectiveStyle) : Fits(k, EffectiveStyle)
=============================================================================
