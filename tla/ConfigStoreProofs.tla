--------------------------- MODULE ConfigStoreProofs ---------------------------
(***************************************************************************)
(* Theorems about ConfigStore: what config.toml can come to hold while any *)
(* number of `config` commands race, die and write into each other, what   *)
(* it holds as long as they do not, and, with the history of               *)
(* ConfigLineage, that they implement ConfigRegister.                      *)
(***************************************************************************)
EXTENDS ConfigLineage, FiniteSetTheorems, TLAPS

(***************************************************************************)
(* A text holds nothing that nobody asked for, but for a key that is not   *)
(* known, once texts were written over each other; a command under way     *)
(* holds such a text, or a value that was asked for; and what is left in   *)
(* the file to be written over is such texts too.                          *)
(***************************************************************************)
Sound(text, known, mix) ==
  /\ IsText(text)
  /\ \A k \in Lines : \/ text[k] \in {Unset, DataclassDefault(k)}
                      \/ <<k, text[k]>> \in known
                      \/ k = Stray /\ mix

StageOK(s, known, mix) ==
  /\ s = Stage(s.pc, s.key, s.value, s.data)
  /\ s.pc \in {"idle", "create", "fill", "load", "open", "write"}
  /\ s.pc = "idle" => s = Resting
  /\ s.pc \in {"create", "fill", "load"} => s.key \in Keys /\ s.value # Unset /\ <<s.key, s.value>> \in known
  /\ Sound(s.data, known, mix)

FileOK(f, known, mix) == f \in {Missing, Unreadable} \/ Sound(f, known, mix)

ConfigIInv == /\ FileOK(file, asked, mixed)
              /\ setter = [w \in Setters |-> setter[w]]
              /\ \A w \in Setters : StageOK(setter[w], asked, mixed)
              /\ \A text \in left : Sound(text, asked, mixed)

-------------------------------------------------------------------------------
(***************************************************************************)
(* The three things a file can be are told apart, and what is loaded from  *)
(* a text is a text.                                                       *)
(***************************************************************************)
LEMMA FilesDiffer ==
  /\ Missing # Unreadable
  /\ \A f : IsText(f) => f # Missing /\ f # Unreadable
<1>1. DOMAIN Missing = {"missing"} /\ DOMAIN Unreadable = {"unreadable"}
  BY DEF Missing, Unreadable
<1>2. "missing" \notin Lines /\ "unreadable" \notin Lines
  BY KeysAssumption DEF KNOWN_CONFIG_KEYS, RULE_CONFIG_KEYS, RuleConfigKey, RuleKeys,
     ACTION_FIELD_MAP, ConfigurableTypes, Lines, Stray
<1>3. \A f : IsText(f) => DOMAIN f = Lines
  BY DEF IsText
<1>4. QED
  BY <1>1, <1>2, <1>3

LEMMA StrayIsUnknown == Stray \notin Keys /\ Keys \subseteq Lines /\ Stray \in Lines
BY KeysAssumption DEF KNOWN_CONFIG_KEYS, RULE_CONFIG_KEYS, RuleConfigKey, RuleKeys,
   ACTION_FIELD_MAP, ConfigurableTypes, Lines, Stray

LEMMA TextsAreText ==
  /\ IsText(Empty) /\ IsText(DEFAULT_CONFIG_TEXT) /\ IsText(RESET_CONFIG_TEXT)
  /\ \A name : IsText(CONFIG_PROFILES(name))
  /\ \A f : IsText(load_config_data(f))
  /\ \A f, k, v : IsText(f) /\ k \in Lines => IsText([f EXCEPT ![k] = v])
BY DEF IsText, Empty, DEFAULT_CONFIG_TEXT, RESET_CONFIG_TEXT, CONFIG_PROFILES, load_config_data

(***************************************************************************)
(* What a text or a file holds is what loading it yields, default by       *)
(* default.                                                                *)
(***************************************************************************)
LEMMA Loaded ==
  ASSUME NEW f, NEW k \in Lines
  PROVE  /\ f = Missing => load_config_data(f)[k] = DataclassDefault(k)
         /\ f # Missing /\ f[k] = Unset => load_config_data(f)[k] = DataclassDefault(k)
         /\ f # Missing /\ f[k] # Unset => load_config_data(f)[k] = f[k]
BY DEF load_config_data

LEMMA SoundTexts ==
  ASSUME NEW known, NEW mix
  PROVE  /\ Sound(Empty, known, mix) /\ Sound(DEFAULT_CONFIG_TEXT, known, mix)
         /\ \A f : f = Missing \/ Sound(f, known, mix) => Sound(load_config_data(f), known, mix)
         /\ \A f, k, v : Sound(f, known, mix) /\ k \in Keys /\ <<k, v>> \in known
                           => Sound([f EXCEPT ![k] = v], known, mix)
<1>1. Sound(Empty, known, mix) /\ Sound(DEFAULT_CONFIG_TEXT, known, mix)
  BY TextsAreText DEF Sound, Empty, DEFAULT_CONFIG_TEXT
<1>2. ASSUME NEW f, f = Missing \/ Sound(f, known, mix) PROVE Sound(load_config_data(f), known, mix)
  BY <1>2, TextsAreText, FilesDiffer, Loaded DEF Sound
<1>3. ASSUME NEW f, NEW k \in Keys, NEW v, Sound(f, known, mix), <<k, v>> \in known
      PROVE  Sound([f EXCEPT ![k] = v], known, mix)
  <2>1. DOMAIN f = Lines /\ k \in Lines
    BY <1>3, StrayIsUnknown DEF Sound, IsText
  <2>2. QED
    BY <1>3, <2>1, TextsAreText DEF Sound
<1>4. QED
  BY <1>1, <1>2, <1>3

\* What is asked stays asked, and what is mixed stays mixed.
LEMMA SoundStays ==
  ASSUME NEW known, NEW more, known \subseteq more, NEW mix, NEW mixes, mix => mixes
  PROVE  /\ \A f : Sound(f, known, mix) => Sound(f, more, mixes)
         /\ \A f : FileOK(f, known, mix) => FileOK(f, more, mixes)
         /\ \A s : StageOK(s, known, mix) => StageOK(s, more, mixes)
<1>1. \A f : Sound(f, known, mix) => Sound(f, more, mixes)
  BY DEF Sound
<1>2. QED
  BY <1>1 DEF FileOK, StageOK

\* A command that goes on keeps its key, its value and its text.
LEMMA Restaged ==
  ASSUME NEW s, s = Stage(s.pc, s.key, s.value, s.data), NEW pc
  PROVE  [s EXCEPT !.pc = pc] = Stage(pc, s.key, s.value, s.data)
<1>1. s \in [pc : {s.pc}, key : {s.key}, value : {s.value}, data : {s.data}]
  BY DEF Stage
<1>2. QED
  BY <1>1 DEF Stage

LEMMA StagesOK ==
  ASSUME NEW known, NEW mix
  PROVE  /\ StageOK(Resting, known, mix)
         /\ \A pc \in {"open", "write"} : \A key, value, data :
              Sound(data, known, mix) => StageOK(Stage(pc, key, value, data), known, mix)
         /\ \A pc \in {"create", "fill", "load"}, key \in Keys : \A value, data :
              Sound(data, known, mix) /\ value # Unset /\ <<key, value>> \in known
                => StageOK(Stage(pc, key, value, data), known, mix)
<1>1. StageOK(Resting, known, mix)
  BY SoundTexts DEF StageOK, Resting, Stage
<1>2. QED
  BY <1>1 DEF StageOK, Stage

(***************************************************************************)
(* What comes of a text written over others: itself, a file that nobody    *)
(* can read, or itself with their values for keys that it leaves open.     *)
(***************************************************************************)
LEMMA Mixes ==
  ASSUME NEW data, IsText(data), NEW f \in Overwritten(data), f # Unreadable, f # data
  PROVE  /\ left # {} /\ IsText(f)
         /\ \A k \in Keys : f[k] = data[k] \/ (data[k] = Unset /\ \E t \in left : f[k] = t[k])
<1>1. left # {} /\ \E cut \in [left -> Cuts] : Fits(data, cut) /\ f \in Joined(data, cut)
  BY DEF Overwritten, Formatted
<1>2. PICK cut \in [left -> Cuts] : Fits(data, cut) /\ f \in Joined(data, cut)
  BY <1>1
<1>3. PICK stray : f = [k \in Lines |-> CASE data[k] # Unset     -> data[k]
                                          [] Giving(cut, k) # {} -> (CHOOSE t \in Giving(cut, k) : TRUE)[k]
                                          [] OTHER               -> IF k = Stray THEN stray ELSE Unset]
  BY <1>2 DEF Joined
<1>4. ASSUME NEW k \in Keys
      PROVE  f[k] = data[k] \/ (data[k] = Unset /\ \E t \in left : f[k] = t[k])
  <2>1. k \in Lines /\ k # Stray
    BY StrayIsUnknown
  <2>2. Giving(cut, k) # {} => data[k] = Unset /\ (CHOOSE t \in Giving(cut, k) : TRUE) \in left
    BY <1>2, <2>1 DEF Fits, Giving
  <2>3. QED
    BY <1>3, <2>1, <2>2
<1>5. IsText(f)
  BY <1>3 DEF IsText
<1>6. QED
  BY <1>1, <1>4, <1>5

LEMMA WrittenOK ==
  ASSUME NEW text, NEW known, NEW mix, Sound(text, known, mix), left # {} => mix,
         \A t \in left : Sound(t, known, mix)
  PROVE  \A f \in Overwritten(text) : FileOK(f, known, mix)
<1> SUFFICES ASSUME NEW f \in Overwritten(text), f # Unreadable, f # text
             PROVE  Sound(f, known, mix)
  BY DEF FileOK
<1>1. /\ mix /\ IsText(f)
      /\ \A k \in Keys : f[k] = text[k] \/ \E t \in left : f[k] = t[k]
  BY Mixes DEF Sound
<1>2. \A k \in Lines : k \in Keys \/ k = Stray
  BY DEF Lines
<1>3. QED
  BY <1>1, <1>2, StrayIsUnknown DEF Sound

-------------------------------------------------------------------------------
(***************************************************************************)
(* Every step of a `config` command keeps this.  One command's new stage,  *)
(* and what it writes, is all there is to look at.                         *)
(***************************************************************************)
LEMMA OneStageOK ==
  ASSUME ConfigIInv, NEW w \in Setters, NEW s, setter' = [setter EXCEPT ![w] = s],
         StageOK(s, asked', mixed'), asked \subseteq asked', mixed => mixed',
         FileOK(file', asked', mixed'), \A text \in left' : Sound(text, asked', mixed')
  PROVE  ConfigIInv'
<1>1. setter' = [x \in Setters |-> IF x = w THEN s ELSE setter[x]]
  BY DEF ConfigIInv
<1>2. \A x \in Setters : StageOK(setter'[x], asked', mixed')
  BY <1>1, SoundStays DEF ConfigIInv
<1>3. QED
  BY <1>1, <1>2 DEF ConfigIInv

LEMMA SetStep ==
  ASSUME ConfigIInv, NEW w \in Setters, NEW o \in Offered, ConfigSet(w, o[1], o[2])
  PROVE  ConfigIInv'
<1>1. PICK pc \in {"create", "load"} : setter' = [setter EXCEPT ![w] = Stage(pc, o[1], o[2], Empty)]
  BY DEF ConfigSet
<1>2. asked \subseteq asked' /\ <<o[1], o[2]>> \in asked' /\ mixed' = mixed
  BY DEF ConfigSet
<1>3. StageOK(Stage(pc, o[1], o[2], Empty), asked', mixed')
  BY <1>2, SoundTexts, StagesOK, OfferedAssumption
<1>4. FileOK(file', asked', mixed') /\ \A text \in left' : Sound(text, asked', mixed')
  BY <1>2, SoundTexts, SoundStays DEF ConfigSet, ConfigIInv, FileOK
<1>5. QED
  BY <1>1, <1>2, <1>3, <1>4, OneStageOK

LEMMA TextStep ==
  ASSUME ConfigIInv, NEW w \in Setters, NEW text, IsText(text), ConfigText(w, text)
  PROVE  ConfigIInv'
<1>1. setter' = [setter EXCEPT ![w] = Stage("open", Unset, Unset, text)]
      /\ file' = file /\ left' = left
  BY DEF ConfigText
<1>2. asked \subseteq asked' /\ mixed' = mixed /\ \A k \in Lines : <<k, text[k]>> \in asked'
  BY DEF ConfigText
<1>3. StageOK(Stage("open", Unset, Unset, text), asked', mixed')
  BY <1>2, StagesOK DEF Sound
<1>4. FileOK(file', asked', mixed') /\ \A t \in left' : Sound(t, asked', mixed')
  BY <1>1, <1>2, SoundStays DEF ConfigIInv
<1>5. QED
  BY <1>1, <1>2, <1>3, <1>4, OneStageOK

\* A text that is written over what is there.
LEMMA WriteStep ==
  ASSUME ConfigIInv, NEW w \in Setters, NEW text, WriteText(w, text), Sound(text, asked, mixed),
         NEW s, setter' = [setter EXCEPT ![w] = s], StageOK(s, asked, mixed), asked' = asked
  PROVE  ConfigIInv'
<1>1. (mixed => mixed') /\ (left # {} => mixed')
  BY DEF WriteText
<1>2. Sound(text, asked, mixed') /\ \A t \in left : Sound(t, asked, mixed')
  BY <1>1, SoundStays DEF ConfigIInv
<1>3. FileOK(file', asked, mixed')
  BY <1>1, <1>2, WrittenOK DEF WriteText
<1>4. \A t \in left' : Sound(t, asked', mixed')
  BY <1>2 DEF WriteText
<1>5. StageOK(s, asked, mixed')
  BY <1>1, SoundStays
<1>6. QED
  BY <1>1, <1>3, <1>4, <1>5, OneStageOK

LEMMA GoingSteps ==
  ASSUME ConfigIInv, NEW w \in Setters,
         Create(w) \/ Fill(w) \/ Load(w) \/ Open(w) \/ Write(w) \/ SetterDies(w)
  PROVE  ConfigIInv'
<1> PICK s : s = setter[w]
  OBVIOUS
<1>0. StageOK(Resting, asked, mixed)
  BY StagesOK
<1>1. /\ asked' = asked /\ StageOK(s, asked, mixed) /\ FileOK(file, asked, mixed)
      /\ \A t \in left : Sound(t, asked, mixed)
      /\ s = Stage(s.pc, s.key, s.value, s.data)
  BY DEF StageOK, Create, Fill, Load, Open, Write, SetterDies, configHistory, ConfigIInv
<1>2. CASE Fill(w)
  <2>1. /\ setter' = [setter EXCEPT ![w] = [s EXCEPT !.pc = "load"]]
        /\ WriteText(w, DEFAULT_CONFIG_TEXT) /\ s.pc = "fill"
    BY <1>2 DEF Fill
  <2>2. StageOK(Stage("load", s.key, s.value, s.data), asked, mixed)
    BY <1>1, <2>1, StagesOK DEF StageOK
  <2>3. [s EXCEPT !.pc = "load"] = Stage("load", s.key, s.value, s.data)
    BY <1>1, Restaged
  <2>4. QED
    BY <1>1, <2>1, <2>2, <2>3, SoundTexts, WriteStep
<1>3. CASE Load(w)
  <2>1. CASE Readable(file)
    <3>1. PICK data : data = [load_config_data(file) EXCEPT ![s.key] = s.value]
      OBVIOUS
    <3>2. setter' = [setter EXCEPT ![w] = Stage("open", s.key, s.value, data)]
          /\ file' = file /\ left' = left /\ mixed' = mixed
      BY <1>3, <2>1, <3>1 DEF Load, configHistory
    <3>3. Sound(data, asked, mixed)
      BY <1>1, <1>3, <2>1, <3>1, SoundTexts DEF Load, StageOK, FileOK, Readable
    <3>4. QED
      BY <1>1, <3>2, <3>3, StagesOK, OneStageOK
  <2>2. CASE ~Readable(file)
    <3>1. /\ setter' = [setter EXCEPT ![w] = Resting]
          /\ file' = file /\ left' = left /\ mixed' = mixed
      BY <1>3, <2>2 DEF Load, configHistory
    <3>2. QED
      BY <1>1, <1>0, <3>1, OneStageOK
  <2>3. QED
    BY <2>1, <2>2
<1>4. CASE Open(w)
  <2>1. /\ setter' = [setter EXCEPT ![w] = [s EXCEPT !.pc = "write"]]
        /\ file' = Empty /\ left' = {} /\ mixed' = mixed
    BY <1>4 DEF Open, configHistory
  <2>2. StageOK(Stage("write", s.key, s.value, s.data), asked, mixed)
    BY <1>1, StagesOK DEF StageOK
  <2>3. [s EXCEPT !.pc = "write"] = Stage("write", s.key, s.value, s.data)
    BY <1>1, Restaged
  <2>4. QED
    BY <1>1, <2>1, <2>2, <2>3, SoundTexts, OneStageOK DEF FileOK
<1>5. CASE Write(w)
  BY <1>1, <1>0, <1>5, WriteStep DEF Write, StageOK
<1>6. CASE SetterDies(w)
  <2>1. /\ setter' = [setter EXCEPT ![w] = Resting]
        /\ file' = file /\ left' = left /\ mixed' = mixed
    BY <1>6 DEF SetterDies, configHistory
  <2>2. QED
    BY <1>1, <1>0, <2>1, OneStageOK
<1>7. CASE Create(w)
  <2>1. /\ setter' = [setter EXCEPT ![w] = [s EXCEPT !.pc = "fill"]]
        /\ file' = Empty /\ left' = {} /\ mixed' = mixed /\ s.pc = "create"
    BY <1>7 DEF Create, configHistory
  <2>2. StageOK(Stage("fill", s.key, s.value, s.data), asked, mixed)
    BY <1>1, <2>1, StagesOK DEF StageOK
  <2>3. [s EXCEPT !.pc = "fill"] = Stage("fill", s.key, s.value, s.data)
    BY <1>1, Restaged
  <2>4. QED
    BY <1>1, <2>1, <2>2, <2>3, SoundTexts, OneStageOK DEF FileOK
<1>8. QED
  BY <1>2, <1>3, <1>4, <1>5, <1>6, <1>7

LEMMA InitConfigIInv == ConfigInit => ConfigIInv
<1> SUFFICES ASSUME ConfigInit PROVE ConfigIInv
  OBVIOUS
<1>1. file = Missing \/ IsText(file)
  BY FilesAssumption DEF ConfigInit
<1>2. \A k \in Lines : <<k, load_config_data(file)[k]>> \in asked
  BY DEF ConfigInit
<1>3. file = Missing \/ Sound(file, asked, mixed)
  BY <1>1, <1>2, FilesDiffer, Loaded DEF Sound
<1>4. setter = [w \in Setters |-> setter[w]] /\ \A w \in Setters : StageOK(setter[w], asked, mixed)
  BY StagesOK DEF ConfigInit
<1>5. left = {}
  BY DEF ConfigInit
<1>6. QED
  BY <1>3, <1>4, <1>5 DEF ConfigIInv, FileOK

LEMMA NextConfigIInv == ConfigIInv /\ [ConfigNext]_configVars => ConfigIInv'
<1> SUFFICES ASSUME ConfigIInv, [ConfigNext]_configVars PROVE ConfigIInv'
  OBVIOUS
<1>1. CASE UNCHANGED configVars
  BY <1>1 DEF configVars, configHistory, ConfigIInv
<1>2. ASSUME NEW w \in Setters, ConfigReset(w) \/ \E name \in Profiles : ConfigProfile(w, name)
      PROVE  ConfigIInv'
  BY <1>2, TextStep, TextsAreText DEF ConfigReset, ConfigProfile
<1>3. QED
  BY <1>1, <1>2, SetStep, GoingSteps DEF ConfigNext

LEMMA NoneUnasked == ConfigIInv => NothingUnasked
BY Loaded DEF ConfigIInv, FileOK, Sound, Readable, NothingUnasked

\* Nothing that was asked is forgotten.
LEMMA AskedGrows == [ConfigNext]_configVars => asked \subseteq asked'
BY DEF ConfigNext, configVars, configHistory, ConfigSet, ConfigReset, ConfigProfile, ConfigText,
   Create, Fill, Load, Open, Write, SetterDies

(***************************************************************************)
(* core/config.py: a read-modify-write without a lock and a write that     *)
(* truncates first may lose settings and mix them, but bring in none that  *)
(* nobody typed or that is not a default, a rule of no known name aside.   *)
(***************************************************************************)
THEOREM NothingIsUnasked == ConfigSpec => []NothingUnasked
<1>1. ConfigSpec => []ConfigIInv
  BY InitConfigIInv, NextConfigIInv, PTL DEF ConfigSpec
<1>2. QED
  BY <1>1, NoneUnasked, PTL

-------------------------------------------------------------------------------
(***************************************************************************)
(* One command after the other.  A text is full when loading it changes    *)
(* nothing: no default takes the place of a key that is not set.  The one  *)
(* command under way is about to write what was asked last.                *)
(***************************************************************************)
Full(text) == IsText(text) /\ \A k \in Lines : text[k] = Unset => DataclassDefault(k) = Unset

TurnOK(s) ==
  /\ s.pc = "create" => file = Missing
  /\ s.pc \in {"create", "fill"} => wanted = [load_config_data(Missing) EXCEPT ![s.key] = s.value]
  /\ s.pc = "load" => file # Missing
                      /\ (Readable(file) => wanted = [load_config_data(file) EXCEPT ![s.key] = s.value])
  /\ s.pc \in {"open", "write"} => s.data = wanted
  /\ s.pc \in {"fill", "write"} => left = {}

OneByOne == \A w, x \in Setters : setter[w] # Resting /\ setter[x] # Resting => w = x

InTurn == /\ OneByOne
          /\ Full(wanted)
          /\ AsWanted
          /\ \A w \in Setters : TurnOK(setter[w])

LEMMA FullTexts ==
  /\ \A f : Full(load_config_data(f))
  /\ Full(RESET_CONFIG_TEXT)
  /\ \A name : Full(CONFIG_PROFILES(name))
  /\ \A f, k, v : Full(f) /\ k \in Keys /\ v # Unset => Full([f EXCEPT ![k] = v])
  /\ load_config_data(Empty) = load_config_data(Missing)
  /\ load_config_data(DEFAULT_CONFIG_TEXT) = load_config_data(Missing)
<1>1. \A f : Full(load_config_data(f))
  BY TextsAreText DEF Full, load_config_data
<1>2. Full(RESET_CONFIG_TEXT)
  BY TextsAreText DEF Full, RESET_CONFIG_TEXT, Unset
<1>3. \A name : Full(CONFIG_PROFILES(name))
  BY <1>2, TextsAreText DEF Full, CONFIG_PROFILES, Unset
<1>4. ASSUME NEW f, NEW k \in Keys, NEW v, Full(f), v # Unset PROVE Full([f EXCEPT ![k] = v])
  <2>1. DOMAIN f = Lines /\ k \in Lines
    BY <1>4, StrayIsUnknown DEF Full, IsText
  <2>2. QED
    BY <1>4, <2>1, TextsAreText DEF Full
<1>5. load_config_data(Empty) = load_config_data(Missing)
  BY FilesDiffer, TextsAreText DEF load_config_data, Empty
<1>6. load_config_data(DEFAULT_CONFIG_TEXT) = load_config_data(Missing)
  BY FilesDiffer, TextsAreText DEF load_config_data, DEFAULT_CONFIG_TEXT
<1>7. QED
  BY <1>1, <1>2, <1>3, <1>4, <1>5, <1>6

LEMMA FullLoads == \A text : Full(text) => load_config_data(text) = text
BY FilesDiffer DEF Full, IsText, load_config_data


\* All but one command rest, before and after.
LEMMA OneTurn ==
  ASSUME ConfigIInv, NEW w \in Setters, NEW s, setter' = [setter EXCEPT ![w] = s],
         \A x \in Setters \ {w} : setter[x] = Resting,
         TurnOK(s)', Full(wanted)',
         s = Resting /\ Readable(file)' => load_config_data(file)' = wanted'
  PROVE  InTurn'
<1>1. \A x \in Setters : setter'[x] = IF x = w THEN s ELSE Resting
  BY DEF ConfigIInv
<1>2. TurnOK(Resting)'
  BY DEF TurnOK, Resting, Stage
<1>3. QED
  BY <1>1, <1>2 DEF InTurn, OneByOne, AsWanted, TurnOK

LEMMA SetInTurn ==
  ASSUME ConfigIInv, InTurn, NEW w \in Setters, NEW o \in Offered, ConfigSet(w, o[1], o[2]),
         \A x \in Setters : setter[x] = Resting
  PROVE  InTurn'
<1>1. PICK k, v : k = o[1] /\ v = o[2]
  OBVIOUS
<1>2. k \in Keys /\ v # Unset
  BY <1>1, OfferedAssumption
<1>3. PICK pc : pc = IF file = Missing THEN "create" ELSE "load"
  OBVIOUS
<1>4. /\ setter' = [setter EXCEPT ![w] = Stage(pc, k, v, Empty)]
      /\ file' = file
      /\ wanted' = [wanted EXCEPT ![k] = v]
  BY <1>1, <1>3 DEF ConfigSet
<1>5. Readable(file) => load_config_data(file) = wanted
  BY DEF InTurn, AsWanted
<1>6. file = Missing => wanted = load_config_data(Missing)
  BY <1>5, FilesDiffer DEF Readable
<1>7. TurnOK(Stage(pc, k, v, Empty))'
  BY <1>3, <1>4, <1>5, <1>6 DEF TurnOK, Stage, Readable
<1>8. Full(wanted)'
  BY <1>2, <1>4, FullTexts DEF InTurn
<1>9. Stage(pc, k, v, Empty) # Resting
  BY <1>3 DEF Stage, Resting
<1>10. QED
  BY <1>4, <1>7, <1>8, <1>9, OneTurn

LEMMA TextInTurn ==
  ASSUME ConfigIInv, InTurn, NEW w \in Setters, NEW text, Full(text), ConfigText(w, text),
         \A x \in Setters : setter[x] = Resting
  PROVE  InTurn'
<1>1. /\ setter' = [setter EXCEPT ![w] = Stage("open", Unset, Unset, text)]
      /\ wanted' = text
  BY DEF ConfigText
<1>2. TurnOK(Stage("open", Unset, Unset, text))' /\ Stage("open", Unset, Unset, text) # Resting
  BY <1>1 DEF TurnOK, Stage, Resting
<1>3. QED
  BY <1>1, <1>2, OneTurn

LEMMA GoingInTurn ==
  ASSUME ConfigIInv, InTurn, NEW w \in Setters,
         Create(w) \/ Fill(w) \/ Load(w) \/ Open(w) \/ Write(w)
  PROVE  InTurn'
<1> PICK s : s = setter[w]
  OBVIOUS
<1>0. s = Stage(s.pc, s.key, s.value, s.data)
  BY DEF ConfigIInv, StageOK
<1>1. /\ s # Resting /\ TurnOK(s) /\ wanted' = wanted /\ Full(wanted)
      /\ s = Stage(s.pc, s.key, s.value, s.data)
  BY <1>0 DEF Create, Fill, Load, Open, Write, Resting, Stage, configHistory, ConfigIInv, InTurn
<1>2. \A x \in Setters \ {w} : setter[x] = Resting
  BY <1>1 DEF InTurn, OneByOne
<1>3. CASE Fill(w)
  <2>1. /\ setter' = [setter EXCEPT ![w] = Stage("load", s.key, s.value, s.data)] /\ s.pc = "fill"
        /\ file' \in {DEFAULT_CONFIG_TEXT, Unreadable}
    <3>1. [s EXCEPT !.pc = "load"] = Stage("load", s.key, s.value, s.data)
      BY <1>1, Restaged
    <3>2. setter' = [setter EXCEPT ![w] = [s EXCEPT !.pc = "load"]]
      BY <1>3 DEF Fill
    <3>3. QED
      BY <1>1, <1>3, <3>1, <3>2 DEF Fill, WriteText, TurnOK, Overwritten, Formatted
  <2>2. load_config_data(DEFAULT_CONFIG_TEXT) = load_config_data(Missing)
        /\ DEFAULT_CONFIG_TEXT # Missing /\ Unreadable # Missing
    BY FullTexts, FilesDiffer, TextsAreText
  <2>3. TurnOK(Stage("load", s.key, s.value, s.data))' /\ Stage("load", s.key, s.value, s.data) # Resting
    BY <1>1, <2>1, <2>2 DEF TurnOK, Stage, Resting, Readable
  <2>4. QED
    BY <1>1, <1>2, <2>1, <2>3, OneTurn
<1>4. CASE Load(w)
  <2>1. CASE Readable(file)
    <3>1. PICK data : data = [load_config_data(file) EXCEPT ![s.key] = s.value]
      OBVIOUS
    <3>2. setter' = [setter EXCEPT ![w] = Stage("open", s.key, s.value, data)]
          /\ data = wanted
      BY <1>1, <1>4, <2>1, <3>1 DEF Load, TurnOK
    <3>3. TurnOK(Stage("open", s.key, s.value, data))' /\ Stage("open", s.key, s.value, data) # Resting
      BY <1>1, <3>2 DEF TurnOK, Stage, Resting
    <3>4. QED
      BY <1>1, <1>2, <3>2, <3>3, OneTurn
  <2>2. CASE ~Readable(file)
    BY <1>1, <1>2, <1>4, <2>2, OneTurn DEF Load, TurnOK, Resting, Stage, Readable
  <2>3. QED
    BY <2>1, <2>2
<1>5. CASE Open(w)
  <2>1. setter' = [setter EXCEPT ![w] = Stage("write", s.key, s.value, s.data)]
        /\ left' = {} /\ s.data = wanted
    <3>1. [s EXCEPT !.pc = "write"] = Stage("write", s.key, s.value, s.data)
      BY <1>1, Restaged
    <3>2. setter' = [setter EXCEPT ![w] = [s EXCEPT !.pc = "write"]]
      BY <1>5 DEF Open
    <3>3. QED
      BY <1>1, <1>5, <3>1, <3>2 DEF Open, TurnOK
  <2>2. TurnOK(Stage("write", s.key, s.value, s.data))' /\ Stage("write", s.key, s.value, s.data) # Resting
    BY <1>1, <2>1 DEF TurnOK, Stage, Resting
  <2>3. QED
    BY <1>1, <1>2, <2>1, <2>2, OneTurn
<1>6. CASE Write(w)
  <2>1. setter' = [setter EXCEPT ![w] = Resting] /\ file' \in {wanted, Unreadable}
    BY <1>1, <1>6 DEF Write, WriteText, TurnOK, Overwritten, Formatted
  <2>2. Readable(file)' => load_config_data(file)' = wanted'
    BY <1>1, <2>1, FullLoads DEF Readable
  <2>3. QED
    BY <1>1, <1>2, <2>1, <2>2, OneTurn DEF TurnOK, Resting, Stage
<1>7. CASE Create(w)
  <2>1. setter' = [setter EXCEPT ![w] = Stage("fill", s.key, s.value, s.data)]
        /\ left' = {} /\ s.pc = "create"
    <3>1. [s EXCEPT !.pc = "fill"] = Stage("fill", s.key, s.value, s.data)
      BY <1>1, Restaged
    <3>2. setter' = [setter EXCEPT ![w] = [s EXCEPT !.pc = "fill"]]
      BY <1>7 DEF Create
    <3>3. QED
      BY <1>7, <3>1, <3>2 DEF Create
  <2>2. TurnOK(Stage("fill", s.key, s.value, s.data))' /\ Stage("fill", s.key, s.value, s.data) # Resting
    BY <1>1, <2>1 DEF TurnOK, Stage, Resting
  <2>3. QED
    BY <1>1, <1>2, <2>1, <2>2, OneTurn
<1>8. QED
  BY <1>3, <1>4, <1>5, <1>6, <1>7

(***************************************************************************)
(* A step that leaves at most one command under way, and kills none.       *)
(***************************************************************************)
LEMMA StepInTurn ==
  ASSUME ConfigIInv, InTurn, ConfigNext, OneByOne',
         configFaults \in Nat, configFaults' = configFaults
  PROVE  InTurn'
<1>1. PICK w \in Setters :
        \/ \E o \in Offered : ConfigSet(w, o[1], o[2])
        \/ ConfigReset(w) \/ \E name \in Profiles : ConfigProfile(w, name)
        \/ Create(w) \/ Fill(w) \/ Load(w) \/ Open(w) \/ Write(w) \/ SetterDies(w)
  BY DEF ConfigNext
<1>2. ASSUME NEW s, s # Resting, setter[w] = Resting, setter' = [setter EXCEPT ![w] = s]
      PROVE  \A x \in Setters : setter[x] = Resting
  BY <1>2 DEF OneByOne, ConfigIInv
<1>3. ASSUME NEW o \in Offered, ConfigSet(w, o[1], o[2]) PROVE InTurn'
  <2>1. PICK s : s # Resting /\ setter[w] = Resting /\ setter' = [setter EXCEPT ![w] = s]
    <3>1. \A pc \in {"create", "load"} : \A k, v : Stage(pc, k, v, Empty) # Resting
      BY DEF Stage, Resting
    <3>2. QED
      BY <1>3, <3>1 DEF ConfigSet
  <2>2. QED
    BY <1>2, <1>3, <2>1, SetInTurn
<1>4. ASSUME NEW text, Full(text), ConfigText(w, text) PROVE InTurn'
  <2>1. Stage("open", Unset, Unset, text) # Resting
    BY DEF Stage, Resting
  <2>2. QED
    BY <1>2, <1>4, <2>1, TextInTurn DEF ConfigText
<1>5. ASSUME SetterDies(w) PROVE FALSE
  BY <1>5 DEF SetterDies
<1>6. QED
  BY <1>1, <1>3, <1>4, <1>5, FullTexts, GoingInTurn DEF ConfigReset, ConfigProfile

LEMMA InitInTurn == ConfigInit => InTurn
<1> SUFFICES ASSUME ConfigInit PROVE InTurn
  OBVIOUS
<1>1. \A w \in Setters : setter[w] = Resting
  BY DEF ConfigInit
<1>2. TurnOK(Resting) /\ Full(wanted)
  BY FullTexts DEF TurnOK, Resting, Stage, ConfigInit
<1>3. QED
  BY <1>1, <1>2 DEF InTurn, OneByOne, AsWanted, ConfigInit

-------------------------------------------------------------------------------
(***************************************************************************)
(* Where the text of a command comes from: what it is about to load is one *)
(* of the configurations it may work on; from then on its text is one of   *)
(* those with its own value in it, or the one text it was named.  What is  *)
(* left in the file for it to write over was put there since it began.     *)
(***************************************************************************)
Named(s) == s.pc \in {"open", "write"} => s.key = Unset \/ (s.key \in Keys /\ s.value # Unset)

Rooted(s, roots) ==
  /\ Named(s)
  /\ s.pc = "idle" => roots = {}
  /\ s.pc = "load" => Reading \in roots \cup {Unreadable}
  /\ s.pc \in {"open", "write"} =>
       IF s.key = Unset THEN roots # {}
       ELSE \E old \in roots \ {Unreadable} :
              old = [k \in Keys |-> old[k]] /\ Known(s.data) = [old EXCEPT ![s.key] = s.value]

Behind(s, texts) == /\ s.pc = "idle" => texts = {}
                    /\ s.pc \in {"fill", "write"} => \A t \in left : Known(t) \in texts

LineageInv == /\ ConfigIInv /\ configFaults \in Nat
              /\ base = [w \in Setters |-> base[w]]
              /\ made = [w \in Setters |-> made[w]]
              /\ \A w \in Setters : Rooted(setter[w], base[w]) /\ Behind(setter[w], made[w])

LEMMA RequestsDiffer ==
  /\ Unset \notin Keys
  /\ \A r : DOMAIN r \subseteq Keys => r # Resting
<1>1. Unset \notin Keys /\ "pc" \notin Keys
  BY KeysAssumption DEF KNOWN_CONFIG_KEYS, RULE_CONFIG_KEYS, RuleConfigKey, RuleKeys,
     ACTION_FIELD_MAP, ConfigurableTypes, Unset
<1>2. "pc" \in DOMAIN Resting
  BY DEF Resting, Stage
<1>3. QED
  BY <1>1, <1>2

\* A command under way has asked for something.
LEMMA RequestMade ==
  ASSUME NEW s, s # Resting, s.pc \in {"create", "fill", "load"} => s.key \in Keys, Named(s),
         s.pc \in {"create", "fill", "load", "open", "write"}
  PROVE  RequestOf(s) # Resting
<1>1. CASE s.key = Unset
  <2>1. DOMAIN Known(s.data) = Keys
    BY DEF Known
  <2>2. QED
    BY <1>1, <2>1, RequestsDiffer DEF RequestOf
<1>2. CASE s.key # Unset
  <2>1. s.key \in Keys
    BY <1>2 DEF Named
  <2>2. DOMAIN [k \in {s.key} |-> s.value] \subseteq Keys
    BY <2>1
  <2>3. QED
    BY <1>2, <2>2, RequestsDiffer DEF RequestOf
<1>3. QED
  BY <1>1, <1>2

(***************************************************************************)
(* What loading finds in the files that commands write: of a text, what    *)
(* the register calls its values, and of a text written over others, what  *)
(* the register says it becomes.                                           *)
(***************************************************************************)
LEMMA Readings ==
  /\ Found(Empty) = Found(Missing)
  /\ \A f : Found(f) = Unreadable <=> f = Unreadable
  /\ \A f : Readable(f) => Found(f) = Known(load_config_data(f))
  /\ \A f : IsText(f) => \A k \in Keys : Found(f)[k] = Register!Value(Known(f), k)
<1>1. \A f : Known(f) # Unreadable
  <2>1. \A f : DOMAIN Known(f) = Keys
    BY DEF Known
  <2>2. DOMAIN Unreadable = {"unreadable"} /\ "unreadable" \notin Keys
    BY KeysAssumption DEF Unreadable, KNOWN_CONFIG_KEYS, RULE_CONFIG_KEYS, RuleConfigKey, RuleKeys,
       ACTION_FIELD_MAP, ConfigurableTypes
  <2>3. QED
    BY <2>1, <2>2
<1>2. \A f : Found(f) = Unreadable <=> f = Unreadable
  BY <1>1 DEF Readable, Found
<1>3. Found(Empty) = Found(Missing)
  BY FilesDiffer, FullTexts, TextsAreText DEF Readable, Found
<1>4. ASSUME NEW f, IsText(f), NEW k \in Keys PROVE Found(f)[k] = Register!Value(Known(f), k)
  <2>1. k \in Lines /\ f # Missing /\ Readable(f) /\ Readable(Missing)
    BY <1>4, StrayIsUnknown, FilesDiffer DEF Readable
  <2>2. Found(Missing)[k] = DataclassDefault(k) /\ Found(f)[k] = load_config_data(f)[k]
    BY <2>1, Loaded DEF Found, Known
  <2>3. Known(f)[k] = f[k]
    BY DEF Known
  <2>4. QED
    BY <2>1, <2>2, <2>3, Loaded DEF Register!Value
<1>5. QED
  BY <1>2, <1>3, <1>4 DEF Found

LEMMA BecomesRead ==
  ASSUME LineageInv, NEW w \in Setters, setter[w].pc \in {"fill", "write"},
         NEW text, IsText(text), file' \in Overwritten(text)
  PROVE  Register!Becomes(w, Known(text))
<1>1. CASE file' = Unreadable
  BY <1>1, Readings DEF Register!Becomes, Reading
<1>2. CASE file' # Unreadable
  <2>1. Reading' = [k \in Keys |-> Reading'[k]]
    BY <1>2, Readings DEF Reading, Readable, Known
  <2>2. /\ IsText(file')
        /\ \A k \in Keys : file'[k] = text[k]
                           \/ (text[k] = Unset /\ \E t \in left : file'[k] = t[k])
    BY <1>2, Mixes
  <2>3. ASSUME NEW k \in Keys
        PROVE  \/ Reading'[k] = Register!Value(Known(text), k)
               \/ Known(text)[k] = Unset /\ \E other \in made[w] : Reading'[k] = Register!Value(other, k)
    <3>1. Reading'[k] = Register!Value(Known(file'), k)
      BY <2>2, Readings DEF Reading
    <3>2. CASE file'[k] = text[k]
      BY <3>1, <3>2 DEF Register!Value, Known
    <3>3. ASSUME text[k] = Unset, NEW t \in left, file'[k] = t[k]
          PROVE  Known(text)[k] = Unset /\ \E other \in made[w] : Reading'[k] = Register!Value(other, k)
      <4>1. Known(t) \in made[w]
        BY DEF LineageInv, Behind
      <4>2. Reading'[k] = Register!Value(Known(t), k)
        BY <3>1, <3>3 DEF Register!Value, Known
      <4>3. QED
        BY <3>3, <4>1, <4>2 DEF Known
    <3>4. QED
      BY <2>2, <3>2, <3>3
  <2>4. QED
    BY <2>1, <2>3 DEF Register!Becomes
<1>3. QED
  BY <1>1, <1>2

(***************************************************************************)
(* One command takes a step, the others look on: what they may work on     *)
(* grows with what they see, what may stand beside it with what is put in. *)
(***************************************************************************)
LineageStep == /\ base' = [v \in Setters |-> Observed(v)]
               /\ made' = [v \in Setters |-> Witnessed(v)]

LEMMA OnlookersRooted ==
  ASSUME LineageInv, NEW w \in Setters, NEW s, setter' = [setter EXCEPT ![w] = s], LineageStep,
         ConfigIInv', configFaults' \in Nat,
         \A t \in left' : t \in left \/ Known(t) \in Written,
         Rooted(s, base[w])', Behind(s, made[w])'
  PROVE  LineageInv'
<1>1. ASSUME NEW v \in Setters, v # w PROVE Rooted(setter[v], base[v])' /\ Behind(setter[v], made[v])'
  <2>1. setter'[v] = setter[v]
    BY <1>1 DEF LineageInv, ConfigIInv
  <2>2. base'[v] = Observed(v) /\ made'[v] = Witnessed(v)
    BY DEF LineageStep
  <2>3. CASE setter[v] = Resting
    <3>1. setter'[v] = Resting /\ base'[v] = {} /\ made'[v] = {}
      BY <2>1, <2>2, <2>3 DEF Observed, Witnessed
    <3>2. Rooted(Resting, {})' /\ Behind(Resting, {})'
      BY DEF Rooted, Behind, Named, Resting, Stage
    <3>3. QED
      BY <3>1, <3>2
  <2>4. CASE setter[v] # Resting
    <3>1. Rooted(setter[v], base[v]) /\ Behind(setter[v], made[v]) /\ setter[v].pc # "idle"
      BY <2>4 DEF LineageInv, ConfigIInv, StageOK
    <3>2. base[v] \subseteq base'[v] /\ (Reading' = Reading \/ Reading' \in base'[v])
      BY <2>1, <2>2, <2>4 DEF Observed
    <3>3. made'[v] = made[v] \cup Written
      BY <2>1, <2>2, <2>4 DEF Witnessed
    <3>4. Rooted(setter[v], base[v])'
      BY <2>1, <3>1, <3>2 DEF Rooted
    <3>5. Behind(setter[v], made[v])'
      BY <2>1, <3>1, <3>3 DEF Behind
    <3>6. QED
      BY <3>4, <3>5
  <2>5. QED
    BY <2>3, <2>4
<1>2. setter'[w] = s
  BY DEF LineageInv, ConfigIInv
<1>3. base' = [v \in Setters |-> base'[v]] /\ made' = [v \in Setters |-> made'[v]]
  BY DEF LineageStep
<1>4. QED
  BY <1>1, <1>2, <1>3 DEF LineageInv

\* What a step of w that changes its stage makes the others see.
Own(w) == IF setter[w].pc = "fill" /\ setter'[w] # Resting THEN {Reading'} ELSE {}

LEMMA RegisterSeen ==
  ASSUME LineageInv, LineageInv', NEW w \in Setters, NEW s, setter' = [setter EXCEPT ![w] = s],
         s # setter[w], LineageStep
  PROVE  Register!Seen(w, Own(w)) /\ Register!PutIn(w, Written)
<1> DEFINE request == [v \in Setters |-> RequestOf(setter[v])]
           seen(v) == IF request'[v] = Resting THEN {}
                      ELSE IF ~(request[v] # Resting) THEN {Reading}
                      ELSE IF v = w THEN base[v] \cup Own(w)
                      ELSE IF Reading' # Reading THEN base[v] \cup {Reading'} ELSE base[v]
           put(v) == IF request'[v] = Resting \/ ~(request[v] # Resting) THEN {}
                     ELSE IF v = w THEN made[v] ELSE made[v] \cup Written
<1>1. ASSUME NEW v \in Setters PROVE base'[v] = seen(v) /\ made'[v] = put(v)
  <2>1. /\ request[v] = Resting <=> setter[v] = Resting
        /\ request'[v] = Resting <=> setter'[v] = Resting
    <3>1. ASSUME NEW x, x # Resting, Named(x), x.pc = "idle" => x = Resting,
                 x.pc \in {"idle", "create", "fill", "load", "open", "write"},
                 x.pc \in {"create", "fill", "load"} => x.key \in Keys
          PROVE  RequestOf(x) # Resting
      BY <3>1, RequestMade
    <3>2. RequestOf(Resting) = Resting
      BY DEF RequestOf
    <3>3. setter[v] # Resting => RequestOf(setter[v]) # Resting
      <4>1. StageOK(setter[v], asked, mixed) /\ Named(setter[v])
        BY DEF LineageInv, ConfigIInv, Rooted
      <4>2. QED
        BY <3>1, <4>1 DEF StageOK
    <3>4. setter'[v] # Resting => RequestOf(setter'[v]) # Resting
      <4>1. StageOK(setter'[v], asked', mixed') /\ Named(setter'[v])
        BY DEF LineageInv, ConfigIInv, Rooted
      <4>2. QED
        BY <3>1, <4>1 DEF StageOK
    <3>5. request[v] = RequestOf(setter[v]) /\ request'[v] = RequestOf(setter'[v])
      OBVIOUS
    <3> HIDE DEF request
    <3>6. QED
      BY <3>2, <3>3, <3>4, <3>5
  <2>2. v # w <=> setter'[v] = setter[v]
    BY DEF LineageInv, ConfigIInv
  <2>3. base'[v] = Observed(v) /\ made'[v] = Witnessed(v)
    BY DEF LineageStep
  <2> HIDE DEF request
  <2>4. base'[v] = seen(v)
    BY <2>1, <2>2, <2>3 DEF Observed, Own
  <2>5. made'[v] = put(v)
    BY <2>1, <2>2, <2>3 DEF Witnessed
  <2>6. QED
    BY <2>4, <2>5
<1>2. base' = [v \in Setters |-> seen(v)] /\ made' = [v \in Setters |-> put(v)]
  <2>1. base' = [v \in Setters |-> base'[v]] /\ made' = [v \in Setters |-> made'[v]]
    BY DEF LineageStep
  <2> HIDE DEF request
  <2>2. QED
    BY <1>1, <2>1
<1>3. Register!Seen(w, Own(w))
  BY <1>2 DEF Register!Seen, Register!Waiting
<1>4. Register!PutIn(w, Written)
  BY <1>2 DEF Register!PutIn, Register!Waiting
<1>5. QED
  BY <1>3, <1>4

(***************************************************************************)
(* What a step of w is to the register, but for what the others see, and   *)
(* when it is none.                                                        *)
(***************************************************************************)
AsksFor == {[k \in {o[1]} |-> o[2]] : o \in Offered}
             \cup {Known(RESET_CONFIG_TEXT)} \cup {Known(CONFIG_PROFILES(name)) : name \in Profiles}

RegisterActs(w) ==
  \/ /\ \/ \E r \in AsksFor : Register!Ask(w, r)
        \/ Register!TakeEffect(w) \/ Register!Blank(w) \/ Register!GiveUp(w)
     /\ Own(w) = {}
  \/ Register!Renew(w) /\ Own(w) = {Reading'}

Silent(s, t) == /\ s # Resting /\ t # Resting /\ s.pc \notin {"fill", "write"}
                /\ Reading' = Reading /\ RequestOf(t) = RequestOf(s)

\* What w writes.
LEMMA WritesOwn ==
  ASSUME ConfigIInv, NEW w \in Setters, NEW t, setter' = [setter EXCEPT ![w] = t], t # setter[w]
  PROVE  Written = IF setter[w].pc \in {"fill", "write"} /\ configFaults' = configFaults
                   THEN {Known(TextOf(setter[w]))} ELSE {}
<1>1. \A v \in Setters : setter'[v] # setter[v] <=> v = w
  BY DEF ConfigIInv
<1>2. Writing = IF setter[w].pc \in {"fill", "write"} /\ configFaults' = configFaults THEN {w} ELSE {}
  BY <1>1 DEF Writing
<1>3. QED
  BY <1>2 DEF Written

\* A step of w is a step of the register, or none, if its own part is.
LEMMA OneMoves ==
  ASSUME LineageInv, ConfigIInv', configFaults' \in Nat, LineageStep,
         NEW w \in Setters, NEW t, setter' = [setter EXCEPT ![w] = t], t # setter[w],
         \A x \in left' : x \in left \/ Known(x) \in Written,
         Rooted(t, base[w])', Behind(t, made[w])',
         (Register!PutIn(w, Written) => RegisterActs(w)) \/ Silent(setter[w], t)
  PROVE  LineageInv' /\ [Register!Next]_(Register!registerVars)
<1>1. LineageInv'
  BY OnlookersRooted
<1>2. CASE Register!PutIn(w, Written) => RegisterActs(w)
  <2>1. Register!Seen(w, Own(w)) /\ RegisterActs(w)
    BY <1>1, <1>2, RegisterSeen
  <2>2. Register!Next
    BY <2>1 DEF RegisterActs, AsksFor, Register!Next
  <2>3. QED
    BY <1>1, <2>2
<1>3. CASE Silent(setter[w], t)
  <2>1. \A v \in Setters : RequestOf(setter'[v]) = RequestOf(setter[v])
    BY <1>3 DEF Silent, LineageInv, ConfigIInv
  <2>2. Written = {}
    BY <1>3, WritesOwn DEF Silent, LineageInv
  <2>3. ASSUME NEW v \in Setters PROVE base'[v] = base[v] /\ made'[v] = made[v]
    <3>1. base'[v] = Observed(v) /\ made'[v] = Witnessed(v) /\ Reading' = Reading
      BY <1>3 DEF Silent, LineageStep
    <3>2. setter[v] = Resting => setter'[v] = Resting /\ base[v] = {} /\ made[v] = {}
      BY <1>3 DEF Silent, LineageInv, ConfigIInv, Rooted, Behind, Resting, Stage
    <3>3. setter'[v] = Resting => setter[v] = Resting
      BY <1>3 DEF Silent, LineageInv, ConfigIInv
    <3>4. setter'[v] # setter[v] => setter[v].pc # "fill"
      BY <1>3 DEF Silent, LineageInv, ConfigIInv
    <3>5. QED
      BY <2>2, <3>1, <3>2, <3>3, <3>4 DEF Observed, Witnessed
  <2>4. base = [v \in Setters |-> base[v]] /\ made = [v \in Setters |-> made[v]]
    BY DEF LineageInv
  <2>5. base' = [v \in Setters |-> base'[v]] /\ made' = [v \in Setters |-> made'[v]]
    BY DEF LineageStep
  <2>6. base' = base /\ made' = made
    BY <2>3, <2>4, <2>5
  <2>7. QED
    BY <1>1, <1>3, <2>1, <2>6 DEF Silent, Register!registerVars
<1>4. QED
  BY <1>2, <1>3

\* A command that begins asks, and changes nothing yet.
LEMMA AskingMoves ==
  ASSUME LineageInv, ConfigIInv', LineageStep, NEW w \in Setters,
         \/ \E o \in Offered : ConfigSet(w, o[1], o[2])
         \/ ConfigReset(w) \/ \E name \in Profiles : ConfigProfile(w, name)
  PROVE  LineageInv' /\ [Register!Next]_(Register!registerVars)
<1>1. ASSUME NEW t, setter' = [setter EXCEPT ![w] = t], setter[w] = Resting, t # Resting,
             file' = file, left' = left, configFaults' = configFaults,
             Named(t), t.pc \in {"create", "load", "open"}, t.pc = "open" => t.key = Unset,
             RequestOf(t) \in AsksFor
      PROVE  LineageInv' /\ [Register!Next]_(Register!registerVars)
  <2>1. setter'[w] = t /\ \A v \in Setters \ {w} : setter'[v] = setter[v]
    BY <1>1 DEF LineageInv, ConfigIInv
  <2>2. base'[w] = {Reading} /\ Reading' = Reading /\ configFaults \in Nat
    BY <1>1, <2>1 DEF Observed, Reading, LineageStep, LineageInv
  <2>3. Rooted(t, base[w])' /\ Behind(t, made[w])'
    BY <1>1, <2>2 DEF Rooted, Behind
  <2>4. Resting.pc = "idle" /\ RequestOf(Resting) = Resting
    BY DEF RequestOf, Resting, Stage
  <2>5. Written = {} /\ Own(w) = {}
    BY <1>1, <2>4, WritesOwn DEF LineageInv, Own
  <2>6. [v \in Setters |-> RequestOf(setter[v])]'
          = [[v \in Setters |-> RequestOf(setter[v])] EXCEPT ![w] = RequestOf(t)]
    BY <2>1
  <2>7. Register!PutIn(w, Written) => Register!Ask(w, RequestOf(t))
    BY <1>1, <2>2, <2>4, <2>5, <2>6 DEF Register!Ask, Register!Waiting
  <2>8. Register!PutIn(w, Written) => RegisterActs(w)
    BY <1>1, <2>5, <2>7 DEF RegisterActs
  <2>9. QED
    BY <1>1, <2>2, <2>3, <2>8, OneMoves
<1>2. ASSUME NEW o \in Offered, ConfigSet(w, o[1], o[2])
      PROVE  LineageInv' /\ [Register!Next]_(Register!registerVars)
  <2>1. PICK pc \in {"create", "load"} : setter' = [setter EXCEPT ![w] = Stage(pc, o[1], o[2], Empty)]
    BY <1>2 DEF ConfigSet
  <2>2. PICK t : t = Stage(pc, o[1], o[2], Empty)
    OBVIOUS
  <2>3. /\ setter' = [setter EXCEPT ![w] = t] /\ setter[w] = Resting /\ t # Resting
        /\ file' = file /\ left' = left /\ configFaults' = configFaults
    BY <1>2, <2>1, <2>2 DEF ConfigSet, Stage, Resting
  <2>4. Named(t) /\ t.pc = pc /\ t.key = o[1] /\ t.value = o[2]
    BY <2>2 DEF Named, Stage
  <2>5. RequestOf(t) = [k \in {o[1]} |-> o[2]]
    BY <2>3, <2>4, OfferedAssumption, RequestsDiffer DEF RequestOf
  <2>6. QED
    BY <1>1, <2>3, <2>4, <2>5 DEF AsksFor
<1>3. ASSUME NEW text, ConfigText(w, text),
             text \in {RESET_CONFIG_TEXT} \cup {CONFIG_PROFILES(name) : name \in Profiles}
      PROVE  LineageInv' /\ [Register!Next]_(Register!registerVars)
  <2>1. PICK t : t = Stage("open", Unset, Unset, text)
    OBVIOUS
  <2>2. /\ setter' = [setter EXCEPT ![w] = t] /\ setter[w] = Resting /\ t # Resting
        /\ file' = file /\ left' = left /\ configFaults' = configFaults
    BY <1>3, <2>1 DEF ConfigText, Stage, Resting
  <2>3. Named(t) /\ t.pc = "open" /\ t.key = Unset /\ t.data = text
    BY <2>1 DEF Named, Stage
  <2>4. RequestOf(t) = Known(text)
    BY <2>2, <2>3 DEF RequestOf
  <2>5. QED
    BY <1>1, <1>3, <2>2, <2>3, <2>4 DEF AsksFor
<1>4. QED
  BY <1>2, <1>3 DEF ConfigReset, ConfigProfile

\* Truncating shows the defaults, filling renews them, loading is not seen, writing
\* takes effect, and a command that cannot load or dies gives up.
LEMMA GoingMoves ==
  ASSUME LineageInv, ConfigIInv', LineageStep, NEW w \in Setters,
         Create(w) \/ Fill(w) \/ Load(w) \/ Open(w) \/ Write(w) \/ SetterDies(w)
  PROVE  LineageInv' /\ [Register!Next]_(Register!registerVars)
<1> PICK s : s = setter[w]
  OBVIOUS
<1>1. /\ StageOK(s, asked, mixed) /\ Rooted(s, base[w]) /\ Behind(s, made[w])
      /\ s = Stage(s.pc, s.key, s.value, s.data)
      /\ Resting.pc = "idle" /\ RequestOf(Resting) = Resting /\ configFaults \in Nat
  BY DEF LineageInv, ConfigIInv, StageOK, Resting, Stage, RequestOf
<1>2. s # Resting /\ s.pc # "idle"
  BY <1>1 DEF StageOK, Create, Fill, Load, Open, Write, SetterDies
<1>3. RequestOf(s) # Resting
  BY <1>1, <1>2, RequestMade DEF StageOK, Rooted
<1>4. Register!Waiting(w)
  BY <1>3 DEF Register!Waiting
<1>5. ASSUME NEW pc \in {"fill", "load", "write"},
             setter' = [setter EXCEPT ![w] = Stage(pc, s.key, s.value, s.data)], pc # s.pc
      PROVE  LET t == Stage(pc, s.key, s.value, s.data) IN
             /\ t # s /\ t # Resting /\ setter'[w] = t
             /\ UNCHANGED [v \in Setters |-> RequestOf(setter[v])]
             /\ base'[w] = base[w] \cup Own(w) /\ made'[w] = made[w]
  <2>1. PICK t : t = Stage(pc, s.key, s.value, s.data)
    OBVIOUS
  <2>2. t # Resting /\ t # s /\ RequestOf(t) = RequestOf(s)
    BY <1>1, <1>2, <1>5, <2>1 DEF RequestOf, Stage
  <2>3. setter'[w] = t /\ \A v \in Setters \ {w} : setter'[v] = setter[v]
    BY <1>5, <2>1 DEF LineageInv, ConfigIInv
  <2>4. [v \in Setters |-> RequestOf(setter[v])]' = [v \in Setters |-> RequestOf(setter[v])]
    BY <2>2, <2>3
  <2>5. base'[w] = base[w] \cup Own(w) /\ made'[w] = made[w]
    BY <1>2, <2>2, <2>3 DEF Observed, Witnessed, LineageStep, Own
  <2>6. QED
    BY <2>1, <2>2, <2>3, <2>4, <2>5
<1>6. ASSUME setter' = [setter EXCEPT ![w] = Resting], configFaults' \in Nat,
             \A x \in left' : x \in left \/ Known(x) \in Written,
             Register!PutIn(w, Written) /\ Register!Finished(w)
               => (Register!TakeEffect(w) /\ Own(w) = {}) \/ (Register!GiveUp(w) /\ Own(w) = {})
      PROVE  LineageInv' /\ [Register!Next]_(Register!registerVars)
  <2>1. setter'[w] = Resting /\ base'[w] = {} /\ made'[w] = {}
    BY <1>6 DEF LineageInv, ConfigIInv, Observed, Witnessed, LineageStep
  <2>2. Rooted(Resting, base[w])' /\ Behind(Resting, made[w])'
    BY <2>1 DEF Rooted, Behind, Named, Resting, Stage
  <2>3. Register!Finished(w)
    BY <1>1, <1>6 DEF Register!Finished, LineageInv, ConfigIInv
  <2>4. Register!PutIn(w, Written) => RegisterActs(w)
    BY <1>6, <2>3 DEF RegisterActs
  <2>5. QED
    BY <1>2, <1>6, <2>2, <2>4, OneMoves
\* Create and Open.
<1>7. ASSUME NEW pc \in {"fill", "write"}, s.pc \in {"create", "open"}, pc = "write" => s.pc = "open",
             setter' = [setter EXCEPT ![w] = [s EXCEPT !.pc = pc]],
             file' = Empty, left' = {}, configFaults' = configFaults
      PROVE  LineageInv' /\ [Register!Next]_(Register!registerVars)
  <2>1. PICK t : t = Stage(pc, s.key, s.value, s.data)
    OBVIOUS
  <2>2. setter' = [setter EXCEPT ![w] = t]
    BY <1>1, <1>7, <2>1, Restaged
  <2>3. /\ t # s /\ t # Resting /\ UNCHANGED [v \in Setters |-> RequestOf(setter[v])]
        /\ base'[w] = base[w] \cup Own(w) /\ made'[w] = made[w]
    BY <1>5, <1>7, <2>1, <2>2
  <2>4. Written = {} /\ Own(w) = {}
    BY <1>7, <2>2, <2>3, WritesOwn DEF LineageInv, Own
  <2>5. Rooted(t, base[w])'
    BY <1>1, <1>7, <2>1, <2>3, <2>4 DEF Rooted, Named, Stage
  <2>6. Behind(t, made[w])'
    BY <1>7, <2>1 DEF Behind, Stage
  <2>7. Reading' = Found(Missing)
    BY <1>7, Readings DEF Reading
  <2>8. Register!PutIn(w, Written) => RegisterActs(w)
    BY <1>4, <2>3, <2>4, <2>7 DEF RegisterActs, Register!Blank
  <2>9. QED
    BY <1>1, <1>7, <2>2, <2>3, <2>5, <2>6, <2>8, OneMoves
<1>8. CASE Create(w)
  BY <1>7, <1>8 DEF Create
<1>9. CASE Open(w)
  BY <1>7, <1>9 DEF Open
<1>10. CASE Fill(w)
  <2>1. PICK t : t = Stage("load", s.key, s.value, s.data)
    OBVIOUS
  <2>2. /\ setter' = [setter EXCEPT ![w] = t] /\ s.pc = "fill" /\ configFaults' = configFaults
        /\ WriteText(w, DEFAULT_CONFIG_TEXT)
    <3>1. setter' = [setter EXCEPT ![w] = [s EXCEPT !.pc = "load"]]
      BY <1>10 DEF Fill
    <3>2. QED
      BY <1>1, <1>10, <2>1, <3>1, Restaged DEF Fill
  <2>3. /\ t # s /\ t # Resting /\ setter'[w] = t
        /\ UNCHANGED [v \in Setters |-> RequestOf(setter[v])]
        /\ base'[w] = base[w] \cup Own(w) /\ made'[w] = made[w]
    BY <1>5, <2>1, <2>2
  <2>4. Written = {Known(DEFAULT_CONFIG_TEXT)} /\ Own(w) = {Reading'}
    BY <2>2, <2>3, WritesOwn DEF LineageInv, Own, TextOf
  <2>5. Rooted(t, base[w])' /\ Behind(t, made[w])'
    BY <2>1, <2>3, <2>4 DEF Rooted, Behind, Named, Stage
  <2>6. Register!Becomes(w, Known(DEFAULT_CONFIG_TEXT))
    BY <2>2, BecomesRead, TextsAreText DEF WriteText
  <2>7. \A x \in left' : x \in left \/ Known(x) \in Written
    BY <2>2, <2>4 DEF WriteText
  <2>8. Register!PutIn(w, Written) => RegisterActs(w)
    BY <1>4, <2>3, <2>4, <2>6 DEF RegisterActs, Register!Renew
  <2>9. QED
    BY <1>1, <2>2, <2>3, <2>5, <2>7, <2>8, OneMoves
<1>11. CASE Load(w)
  <2>1. CASE Readable(file)
    <3>1. PICK data : data = [load_config_data(file) EXCEPT ![s.key] = s.value]
      OBVIOUS
    <3>2. PICK t : t = Stage("open", s.key, s.value, data)
      OBVIOUS
    <3>3. /\ setter' = [setter EXCEPT ![w] = t] /\ s.pc = "load"
          /\ file' = file /\ left' = left /\ configFaults' = configFaults
      BY <1>11, <2>1, <3>1, <3>2 DEF Load
    <3>4. t # s /\ t # Resting /\ t.pc = "open" /\ Reading' = Reading
      BY <1>1, <3>2, <3>3 DEF Stage, Reading
    <3>5. s.key \in Keys /\ s.key # Unset /\ s.value # Unset
      BY <1>1, <3>3, RequestsDiffer DEF StageOK
    <3>6. t.key = s.key /\ t.value = s.value /\ t.data = data
      BY <3>2 DEF Stage
    <3>7. RequestOf(t) = RequestOf(s)
      BY <1>2, <3>4, <3>5, <3>6 DEF RequestOf
    <3>8. base'[w] = base[w]
      BY <1>2, <3>3, <3>4 DEF Observed, LineageInv, ConfigIInv, LineageStep
    <3>9. /\ Known(data) = [Reading EXCEPT ![s.key] = s.value]
          /\ Reading = [k \in Keys |-> Reading[k]]
      <4>1. Reading = Known(load_config_data(file)) /\ IsText(load_config_data(file))
        BY <2>1, Readings, TextsAreText DEF Reading
      <4>2. DOMAIN load_config_data(file) = Lines
        BY DEF load_config_data
      <4>3. QED
        BY <3>1, <3>5, <4>1, <4>2, StrayIsUnknown DEF Known
    <3>10. Reading \in base[w] \ {Unreadable}
      BY <1>1, <2>1, <3>3, Readings DEF Rooted, Reading, Readable
    <3>11. Rooted(t, base[w])' /\ Behind(t, made[w])'
      BY <3>4, <3>5, <3>6, <3>8, <3>9, <3>10 DEF Rooted, Behind, Named
    <3>12. Silent(s, t)
      BY <1>2, <3>3, <3>4, <3>7 DEF Silent
    <3>13. QED
      BY <1>1, <3>3, <3>4, <3>11, <3>12, OneMoves
  <2>2. CASE ~Readable(file)
    <3>1. /\ setter' = [setter EXCEPT ![w] = Resting] /\ Reading' = Reading /\ s.pc = "load"
          /\ left' = left /\ configFaults' = configFaults
      BY <1>11, <2>2 DEF Load, Reading
    <3>2. Written = {} /\ Own(w) = {}
      BY <1>2, <3>1, WritesOwn DEF LineageInv, Own
    <3>3. QED
      BY <1>1, <1>4, <1>6, <3>1, <3>2 DEF Register!GiveUp
  <2>3. QED
    BY <2>1, <2>2
<1>12. CASE Write(w)
  <2>1. /\ setter' = [setter EXCEPT ![w] = Resting] /\ s.pc = "write"
        /\ WriteText(w, s.data) /\ configFaults' = configFaults
    BY <1>12 DEF Write
  <2>2. Written = {Known(s.data)} /\ Own(w) = {}
    BY <1>2, <2>1, WritesOwn DEF LineageInv, Own, TextOf
  <2>3. PICK old \in base[w] :
          /\ Register!Applies(RequestOf(s), old)
          /\ Register!Result(RequestOf(s), old) = Known(s.data)
    <3>1. CASE s.key = Unset
      <4>1. RequestOf(s) = Known(s.data) /\ DOMAIN Known(s.data) = Keys
        BY <1>2, <3>1 DEF RequestOf, Known
      <4>2. \A old : Register!Result(Known(s.data), old) = Known(s.data)
        BY <4>1 DEF Register!Result, Known
      <4>3. base[w] # {}
        BY <1>1, <2>1, <3>1 DEF Rooted
      <4>4. QED
        BY <4>1, <4>2, <4>3 DEF Register!Applies
    <3>2. CASE s.key # Unset
      <4>1. RequestOf(s) = [k \in {s.key} |-> s.value]
        BY <1>2, <3>2 DEF RequestOf
      <4>2. PICK old \in base[w] : /\ old # Unreadable /\ old = [k \in Keys |-> old[k]]
                                   /\ Known(s.data) = [old EXCEPT ![s.key] = s.value]
        BY <1>1, <2>1, <3>2 DEF Rooted
      <4>3. Register!Result(RequestOf(s), old) = Known(s.data)
        BY <4>1, <4>2 DEF Register!Result
      <4>4. QED
        BY <4>2, <4>3 DEF Register!Applies
    <3>3. QED
      BY <3>1, <3>2
  <2>4. Register!Becomes(w, Known(s.data))
    <3>1. IsText(s.data)
      BY <1>1 DEF StageOK, Sound
    <3>2. QED
      BY <2>1, <3>1, BecomesRead DEF WriteText
  <2>5. \A x \in left' : x \in left \/ Known(x) \in Written
    BY <2>1, <2>2 DEF WriteText
  <2>6. Register!PutIn(w, Written) /\ Register!Finished(w) => Register!TakeEffect(w)
    <3>1. [v \in Setters |-> RequestOf(setter[v])][w] = RequestOf(s)
      OBVIOUS
    <3>2. QED
      BY <1>4, <2>2, <2>3, <2>4, <3>1 DEF Register!TakeEffect
  <2>7. QED
    BY <1>1, <1>6, <2>1, <2>2, <2>5, <2>6
<1>13. CASE SetterDies(w)
  <2>1. /\ setter' = [setter EXCEPT ![w] = Resting] /\ Reading' = Reading /\ left' = left
        /\ configFaults' = configFaults + 1
    BY <1>13 DEF SetterDies, Reading
  <2>2. Written = {} /\ Own(w) = {}
    <3>1. setter'[w] = Resting /\ configFaults' # configFaults
      BY <1>1, <2>1 DEF LineageInv, ConfigIInv
    <3>2. QED
      BY <1>2, <2>1, <3>1, WritesOwn DEF LineageInv, Own
  <2>3. QED
    BY <1>1, <1>4, <1>6, <2>1, <2>2 DEF Register!GiveUp
<1>14. QED
  BY <1>8, <1>9, <1>10, <1>11, <1>12, <1>13

-------------------------------------------------------------------------------
LEMMA LineageMoves ==
  LineageInv /\ [LineageNext]_lineageVars
    => LineageInv' /\ [Register!Next]_(Register!registerVars)
<1> SUFFICES ASSUME LineageInv, [LineageNext]_lineageVars
             PROVE  LineageInv' /\ [Register!Next]_(Register!registerVars)
  OBVIOUS
<1>1. CASE UNCHANGED lineageVars
  <2>1. /\ file' = file /\ setter' = setter /\ asked' = asked /\ base' = base /\ made' = made
        /\ left' = left /\ mixed' = mixed /\ configFaults' = configFaults
    BY <1>1 DEF lineageVars, configVars, configHistory
  <2>2. LineageInv'
    BY <2>1 DEF LineageInv, ConfigIInv, Rooted, Behind, Reading
  <2>3. QED
    BY <2>1, <2>2 DEF Register!registerVars, Reading
<1>2. CASE LineageNext
  <2>1. ConfigIInv' /\ LineageStep
    BY <1>2, NextConfigIInv DEF LineageNext, LineageInv, LineageStep
  <2>2. QED
    BY <1>2, <2>1, AskingMoves, GoingMoves DEF LineageNext, ConfigNext
<1>3. QED
  BY <1>1, <1>2

LEMMA LineageBegins == LineageInit => LineageInv /\ Register!Init
<1> SUFFICES ASSUME LineageInit PROVE LineageInv /\ Register!Init
  OBVIOUS
<1>1. ConfigIInv /\ configFaults \in Nat
  BY InitConfigIInv DEF LineageInit, ConfigInit
<1>2. \A w \in Setters : setter[w] = Resting /\ base[w] = {} /\ made[w] = {}
  BY DEF LineageInit, ConfigInit
<1>3. Rooted(Resting, {}) /\ Behind(Resting, {})
  BY DEF Rooted, Behind, Named, Resting, Stage
<1>4. base = [w \in Setters |-> base[w]] /\ made = [w \in Setters |-> made[w]]
  BY DEF LineageInit
<1>5. Reading \in {Found(f) : f \in InitialFiles}
  BY DEF Reading, LineageInit, ConfigInit
<1>6. [w \in Setters |-> RequestOf(setter[w])] = [w \in Setters |-> Resting]
  BY <1>2 DEF RequestOf
<1>7. QED
  BY <1>1, <1>2, <1>3, <1>4, <1>5, <1>6 DEF LineageInv, Register!Init, LineageInit

(***************************************************************************)
(* core/config.py: set, reset and profile are a read, a change and a       *)
(* truncating write with no lock.  However they interleave, die and write  *)
(* one text over another, each command takes effect at most once, over a   *)
(* configuration there was since it began, with every value of its own     *)
(* text; only for keys that this leaves open can the file hold what others *)
(* put in meanwhile.                                                       *)
(***************************************************************************)
THEOREM ConfigImplementsRegister == LineageSpec => RegisterSpec
<1>1. LineageSpec => []LineageInv
  BY LineageBegins, LineageMoves, PTL DEF LineageSpec
<1>2. QED
  BY <1>1, LineageBegins, LineageMoves, PTL DEF LineageSpec, RegisterSpec, Register!Spec

===============================================================================
