--------------------------- MODULE VerbosityProofs ---------------------------
(***************************************************************************)
(* The level of the log is the one the command line asks for, however      *)
(* numbers and letters are mixed on it.  The sum in LevelGiven is first    *)
(* turned into a cardinality, which does not depend on the order in which  *)
(* a fold picks the elements.                                              *)
(***************************************************************************)
EXTENDS MainProofs, FiniteSetTheorems

(***************************************************************************)
(* Sums.                                                                   *)
(***************************************************************************)

\* One pair for every unit by which the options at positions T raise the level.
Units(T) == {u \in T \X Nat : u[2] \in 1 .. Raises(u[1])}

LEMMA UnitsOfNone == Cardinality(Units({})) = 0 /\ IsFiniteSet(Units({}))
<1>1. Units({}) = {}
  BY DEF Units
<1> QED BY <1>1, FS_EmptySet

LEMMA UnitsOfOneMore ==
    ASSUME NEW T, NEW x, x \notin T, Raises(x) \in Nat, IsFiniteSet(Units(T))
    PROVE  /\ IsFiniteSet(Units(T \cup {x}))
           /\ Cardinality(Units(T \cup {x})) = Raises(x) + Cardinality(Units(T))
<1> DEFINE mine == {x} \X (1 .. Raises(x))
<1>1. IsFiniteSet(mine) /\ Cardinality(mine) = Raises(x)
  <2>1. IsFiniteSet(1 .. Raises(x)) /\ Cardinality(1 .. Raises(x)) = Raises(x)
    BY FS_Interval
  <2>2. IsFiniteSet({x}) /\ Cardinality({x}) = 1
    BY FS_Singleton
  <2> QED BY <2>1, <2>2, FS_Product
<1>2. Units(T \cup {x}) = Units(T) \cup mine /\ Units(T) \cap mine = {}
  BY DEF Units
<1>3. Cardinality(Units(T)) \in Nat
  BY FS_CardinalityType
<1> HIDE DEF mine
<1>4. /\ IsFiniteSet(Units(T) \cup mine)
      /\ Cardinality(Units(T) \cup mine)
           = Cardinality(Units(T)) + Cardinality(mine) - Cardinality(Units(T) \cap mine)
  BY <1>1, FS_Union
<1>5. Cardinality(Units(T) \cap mine) = 0
  BY <1>2, FS_EmptySet
<1>6. Cardinality(Units(T) \cup mine) = Raises(x) + Cardinality(Units(T))
  BY <1>1, <1>3, <1>4, <1>5
<1> QED BY <1>2, <1>4, <1>6

\* The least element of a set of numbers.
LEMMA Smallest ==
    ASSUME NEW T, T \subseteq Nat, T # {}
    PROVE  \E n \in T : \A m \in T : n <= m
<1> DEFINE R == OpToRel(<, Nat)
<1>1. IsWellFoundedOn(R, Nat)
  BY NatLessThanWellFounded
<1>2. \A x, y \in Nat : <<x, y>> \in R <=> x < y
  BY DEF OpToRel
<1> HIDE DEF R
<1>3. PICK x \in T : \A y \in T : ~(<<y, x>> \in R)
  BY <1>1, WFMin
<1>4. \A y \in T : ~(y < x)
  BY <1>2, <1>3, Zenon
<1> QED BY <1>4

\* Subsets of a finite set have finitely many units.
LEMMA UnitsFinite ==
    ASSUME NEW D, IsFiniteSet(D), \A x \in D : Raises(x) \in Nat
    PROVE  \A T \in SUBSET D : IsFiniteSet(Units(T))
<1> DEFINE Bad == {T \in SUBSET D : ~IsFiniteSet(Units(T))}
           Sizes == {Cardinality(T) : T \in Bad}
<1> SUFFICES ASSUME Bad # {} PROVE FALSE
  OBVIOUS
<1>1. \A T \in SUBSET D : IsFiniteSet(T) /\ Cardinality(T) \in Nat
  BY FS_Subset, FS_CardinalityType
<1>2. PICK T \in Bad : \A U \in Bad : Cardinality(T) <= Cardinality(U)
  <2>1. Sizes \subseteq Nat /\ Sizes # {}
    BY <1>1
  <2>2. PICK n \in Sizes : \A m \in Sizes : n <= m
    BY <2>1, Smallest
  <2> QED BY <2>2
<1>3. PICK x \in T : TRUE
  BY <1>2, UnitsOfNone
<1>4. Cardinality(T \ {x}) < Cardinality(T) /\ T \ {x} \in SUBSET D
  BY <1>1, <1>2, <1>3, FS_RemoveElement
<1>5. IsFiniteSet(Units(T \ {x}))
  BY <1>1, <1>2, <1>4
<1>6. (T \ {x}) \cup {x} = T
  BY <1>3
<1> QED BY <1>2, <1>3, <1>5, <1>6, UnitsOfOneMore

\* The fold of the community modules adds up the units.
LEMMA SumOfUnits ==
    ASSUME NEW D, IsFiniteSet(D), \A x \in D : Raises(x) \in Nat
    PROVE  MapThenSumSet(Raises, D) = Cardinality(Units(D))
<1> DEFINE Sum(g, s) == IF s = {} THEN 0
                        ELSE LET x == CHOOSE y \in s : TRUE
                             IN  Raises(x) + g[s \ {x}]
           iter == CHOOSE g : g = [s \in SUBSET D |-> Sum(g, s)]
           units == [s \in SUBSET D |-> Cardinality(Units(s))]
<1>1. MapThenSumSet(Raises, D) = iter[D]
  BY DEF MapThenSumSet, MapThenFoldSet
<1>2. /\ \A T \in SUBSET D : IsFiniteSet(T) /\ Cardinality(T) \in Nat
      /\ \A T \in SUBSET D : IsFiniteSet(Units(T))
  BY FS_Subset, FS_CardinalityType, UnitsFinite
<1>3. ASSUME NEW T \in SUBSET D, T # {}
      PROVE  \E x \in T : /\ x = CHOOSE y \in T : TRUE
                         /\ T \ {x} \in SUBSET D
                         /\ Cardinality(T \ {x}) < Cardinality(T)
                         /\ Cardinality(Units(T)) = Raises(x) + Cardinality(Units(T \ {x}))
  <2> DEFINE x == CHOOSE y \in T : TRUE
  <2>1. x \in T
    BY <1>3
  <2> HIDE DEF x
  <2>2. T \ {x} \in SUBSET D /\ (T \ {x}) \cup {x} = T /\ x \notin T \ {x}
    BY <2>1
  <2>3. Cardinality(T \ {x}) < Cardinality(T)
    BY <1>2, <2>1, FS_RemoveElement
  <2>4. Cardinality(Units(T)) = Raises(x) + Cardinality(Units(T \ {x}))
    <3>1. IsFiniteSet(Units(T \ {x})) /\ Raises(x) \in Nat
      BY <1>2, <2>1, <2>2
    <3> QED BY <2>2, <3>1, UnitsOfOneMore
  <2> QED BY <2>1, <2>2, <2>3, <2>4 DEF x
<1>4. iter = [s \in SUBSET D |-> Sum(iter, s)]
  <2>1. units = [s \in SUBSET D |-> Sum(units, s)]
    <3> SUFFICES ASSUME NEW s \in SUBSET D
                 PROVE  Cardinality(Units(s)) = Sum(units, s)
      OBVIOUS
    <3>1. CASE s = {}
      BY <3>1, UnitsOfNone
    <3>2. CASE s # {}
      BY <1>3, <3>2
    <3> QED BY <3>1, <3>2
  <2> QED BY <2>1
<1>5. \A T \in SUBSET D : iter[T] = Cardinality(Units(T))
  <2> HIDE DEF iter
  <2> DEFINE Bad == {T \in SUBSET D : iter[T] # Cardinality(Units(T))}
             Sizes == {Cardinality(T) : T \in Bad}
  <2> SUFFICES ASSUME Bad # {} PROVE FALSE
    OBVIOUS
  <2>1. PICK T \in Bad : \A U \in Bad : Cardinality(T) <= Cardinality(U)
    <3>1. Sizes \subseteq Nat /\ Sizes # {}
      BY <1>2
    <3>2. PICK n \in Sizes : \A m \in Sizes : n <= m
      BY <3>1, Smallest
    <3> QED BY <3>2
  <2>2. iter[T] = Sum(iter, T)
    BY <1>4, <2>1
  <2>3. T # {}
    BY <2>1, <2>2, UnitsOfNone
  <2>4. PICK x \in T : /\ x = CHOOSE y \in T : TRUE
                       /\ T \ {x} \in SUBSET D
                       /\ Cardinality(T \ {x}) < Cardinality(T)
                       /\ Cardinality(Units(T)) = Raises(x) + Cardinality(Units(T \ {x}))
    BY <1>3, <2>1, <2>3
  <2>5. iter[T \ {x}] = Cardinality(Units(T \ {x}))
    <3>1. Cardinality(T \ {x}) \in Nat /\ Cardinality(T) \in Nat
      BY <1>2, <2>1, <2>4
    <3> QED BY <2>1, <2>4, <3>1
  <2> QED BY <2>1, <2>2, <2>3, <2>4, <2>5
<1> QED BY <1>1, <1>5

(***************************************************************************)
(* The level of the first m options.                                       *)
(***************************************************************************)
Verbose(m) == {i \in 1 .. m : args[i].name = "verbose"}
Numbers(m) == {i \in Verbose(m) : args[i].form = "number"}
Raisers(m) == {i \in Verbose(m) : \A j \in Numbers(m) : j < i}

Base(m) == IF Numbers(m) = {} THEN 0 ELSE args[Max(Numbers(m))].n
LevelOf(m) == Base(m) + Cardinality(Units(Raisers(m)))

LEMMA RaisersFinite ==
    ASSUME args \in Seq(Options), NEW m \in 0 .. Len(args)
    PROVE  /\ IsFiniteSet(Raisers(m)) /\ \A i \in Raisers(m) : Raises(i) \in Nat
           /\ IsFiniteSet(Units(Raisers(m)))
           /\ Cardinality(Units(Raisers(m))) \in Nat
<1>1. IsFiniteSet(1 .. m) /\ Raisers(m) \in SUBSET (1 .. m)
  BY FS_Interval DEF Raisers, Verbose
<1>2. IsFiniteSet(Raisers(m))
  BY <1>1, FS_Subset
<1>3. \A i \in Raisers(m) : Raises(i) \in Nat
  <2> TAKE i \in Raisers(m)
  <2>1. args[i] \in Options
    <3>1. i \in 1 .. Len(args)
      BY <1>1
    <3> QED BY <3>1, ElementOfSeq
  <2> QED BY <2>1 DEF Raises, Options
<1>4. IsFiniteSet(Units(Raisers(m)))
  BY <1>2, <1>3, UnitsFinite
<1> QED BY <1>2, <1>3, <1>4, FS_CardinalityType

\* The level the properties speak of is that of the whole line.
LEMMA LevelOfAll ==
    ASSUME args \in Seq(Options)
    PROVE  LevelGiven = LevelOf(Len(args))
<1> DEFINE m == Len(args)
<1>1. m \in 0 .. Len(args)
  BY LenProperties
<1>2. Positions("verbose") = Verbose(m)
  BY DEF Positions, Verbose
<1>3. LevelGiven = Base(m) + MapThenSumSet(Raises, Raisers(m))
  BY <1>2 DEF LevelGiven, Base, Numbers, Raisers
<1> HIDE DEF m
<1>4. MapThenSumSet(Raises, Raisers(m)) = Cardinality(Units(Raisers(m)))
  BY <1>1, RaisersFinite, SumOfUnits
<1> QED BY <1>3, <1>4 DEF LevelOf, m

\* What one more option makes of the level.
LEMMA LevelNext ==
    ASSUME args \in Seq(Options), NEW m \in Nat, m < Len(args), Base(m) \in Nat
    PROVE  LET option == args[m + 1]
           IN  /\ Base(m + 1) \in Nat
               /\ option.name # "verbose" => LevelOf(m + 1) = LevelOf(m)
               /\ option.name = "verbose" =>
                    LevelOf(m + 1) = IF option.form = "number" THEN option.n
                                     ELSE LevelOf(m) + Raises(m + 1)
<1> DEFINE option == args[m + 1]
<1>1. option \in Options /\ option.n \in Nat
  <2>1. m + 1 \in 1 .. Len(args)
    BY LenProperties
  <2>2. option \in Options
    BY <2>1, ElementOfSeq
  <2> QED BY <2>2 DEF Options
<1>2. 1 .. m + 1 = (1 .. m) \cup {m + 1}
  OBVIOUS
<1>3. m \in 0 .. Len(args) /\ m + 1 \in 0 .. Len(args) /\ \A i \in 1 .. m : i < m + 1
  BY LenProperties
<1>4. CASE option.name # "verbose"
  <2>1. Verbose(m + 1) = Verbose(m)
    BY <1>2, <1>4 DEF Verbose
  <2> QED BY <1>4, <2>1 DEF Numbers, Raisers, Base, LevelOf
<1>5. CASE option.name = "verbose" /\ option.form = "number"
  <2>1. m + 1 \in Numbers(m + 1) /\ \A i \in Numbers(m + 1) : i \in 1 .. m + 1
    BY <1>2, <1>5 DEF Verbose, Numbers
  <2>2. Max(Numbers(m + 1)) = m + 1
    BY <2>1 DEF Max
  <2>3. Base(m + 1) = option.n
    BY <2>1, <2>2 DEF Base
  <2>4. Raisers(m + 1) = {}
    BY <2>1 DEF Raisers, Verbose
  <2>5. LevelOf(m + 1) = option.n
    <3>1. Cardinality(Units(Raisers(m + 1))) = 0
      BY <2>4, UnitsOfNone
    <3> QED BY <1>1, <2>3, <3>1 DEF LevelOf
  <2> QED BY <1>1, <1>5, <2>3, <2>5
<1>6. CASE option.name = "verbose" /\ option.form # "number"
  <2>1. Numbers(m + 1) = Numbers(m)
    BY <1>2, <1>6 DEF Verbose, Numbers
  <2>2. Raisers(m + 1) = Raisers(m) \cup {m + 1} /\ m + 1 \notin Raisers(m)
    <3>1. Verbose(m + 1) = Verbose(m) \cup {m + 1}
      BY <1>2, <1>6 DEF Verbose
    <3>2. m + 1 \notin Verbose(m) /\ \A j \in Numbers(m) : j < m + 1
      BY <1>3 DEF Verbose, Numbers
    <3> QED BY <2>1, <3>1, <3>2 DEF Raisers
  <2>3. /\ Cardinality(Units(Raisers(m + 1)))
             = Raises(m + 1) + Cardinality(Units(Raisers(m)))
        /\ Cardinality(Units(Raisers(m))) \in Nat /\ Raises(m + 1) \in Nat
    <3>1. Raises(m + 1) \in Nat
      BY <1>1 DEF Raises
    <3> QED BY <1>3, <2>2, <3>1, RaisersFinite, UnitsOfOneMore
  <2>4. Base(m + 1) = Base(m)
    BY <2>1 DEF Base
  <2>5. LevelOf(m + 1) = LevelOf(m) + Raises(m + 1)
    BY <2>3, <2>4 DEF LevelOf
  <2> QED BY <1>6, <2>4, <2>5
<1> QED BY <1>4, <1>5, <1>6

LEMMA LevelUnchanged ==
    ASSUME UNCHANGED args
    PROVE  \A m : Base(m)' = Base(m) /\ LevelOf(m)' = LevelOf(m)
BY DEF Base, LevelOf, Numbers, Raisers, Verbose, Units, Raises

-----------------------------------------------------------------------------
(***************************************************************************)
(* Types of what main() keeps.                                             *)
(***************************************************************************)

\* What is stored for verbose; OptionLevelT starts from none.
Current == IF Given("verbose") THEN vm["verbose"] ELSE 0

LEMMA LevelType ==
    ASSUME NEW option \in Options, ~LevelThrows(option), NEW n \in 0 .. MaxUnsigned
    PROVE  Level(n, option) \in 0 .. MaxUnsigned
<1>1. \A x \in Nat, w \in Nat : x % (w + 1) \in 0 .. w
  OBVIOUS
<1>2. option.n \in Nat /\ MaxUnsigned \in Nat
  BY OptionsAssumption DEF Options
<1>3. option.form = "number" => option.n <= MaxUnsigned
  BY <1>2 DEF LevelThrows
<1>4. n + option.n + 1 \in Nat /\ n + 1 \in Nat
  BY <1>2
<1>5. /\ (n + option.n + 1) % (MaxUnsigned + 1) \in 0 .. MaxUnsigned
      /\ (n + 1) % (MaxUnsigned + 1) \in 0 .. MaxUnsigned
  BY <1>1, <1>2, <1>4
<1> QED BY <1>2, <1>3, <1>5 DEF Level

\* All of MainTypeOK but the types of run().
StartTypes ==
    /\ stage \in Ends \cup {"parse", "store", "report", "level",
                            "load", "construct", "start", "running"}
    /\ \A name \in DOMAIN vm : vm[name] \in Int
    /\ Current \in 0 .. MaxUnsigned
    /\ errorMsg \in BOOLEAN
    /\ sev \in trace .. warning

\* What a stored option changes.
LEMMA StoredOption ==
    ASSUME LineInv, StoreOption
    PROVE  /\ Option = args[next] /\ Option \in Options
           /\ UNCHANGED <<args, stage, errorMsg, sev>>
           /\ Option.name = "verbose" =>
                /\ ~LevelThrows(Option)
                /\ vm' = Put(vm, "verbose", Level(Current, Option))
           /\ Option.name # "verbose" => vm' = Put(vm, Option.name, Option.n)
<1>1. args[next] \in Options
  <2>1. next \in 1 .. Len(args) /\ args \in Seq(Options)
    BY LenProperties DEF LineInv, StoreOption
  <2> QED BY <2>1, ElementOfSeq
<1> QED BY <1>1 DEF StoreOption, Option, Current

LEMMA StoredLevel ==
    ASSUME LineInv, StoreOption
    PROVE  Current' = IF Option.name = "verbose" THEN Level(Current, Option)
                      ELSE Current
<1>1. CASE Option.name = "verbose"
  <2>1. vm' = Put(vm, "verbose", Level(Current, Option))
    BY <1>1, StoredOption
  <2> QED BY <1>1, <2>1 DEF Put, Current, Given
<1>2. CASE Option.name # "verbose"
  <2>1. vm' = Put(vm, Option.name, Option.n)
    BY <1>2, StoredOption
  <2> QED BY <1>2, <2>1 DEF Put, Current, Given
<1> QED BY <1>1, <1>2

LEMMA StartTypesStep ==
    ASSUME LineInv, StartTypes, [MainNext]_allVars
    PROVE  StartTypes'
<1> USE DEF StartTypes
<1>1. CASE StoreOption
  <2>1. Current' \in 0 .. MaxUnsigned
    BY <1>1, StoredOption, StoredLevel, LevelType
  <2>2. \A name \in DOMAIN vm' : vm'[name] \in Int
    <3>1. CASE Option.name = "verbose"
      <4>1. Level(Current, Option) \in Int
        BY <1>1, <3>1, StoredOption, LevelType
      <4> QED BY <1>1, <3>1, <4>1, StoredOption DEF Put
    <3>2. CASE Option.name # "verbose"
      <4>1. Option.n \in Int
        BY <1>1, StoredOption DEF Options
      <4> QED BY <1>1, <3>2, <4>1, StoredOption DEF Put
    <3> QED BY <3>1, <3>2
  <2> QED BY <1>1, <2>1, <2>2, StoredOption
<1>2. CASE SetLevel
  <2>1. sev' \in trace .. warning
    BY <1>2 DEF SetLevel, Current, trace, warning
  <2> QED BY <1>2, <2>1 DEF SetLevel, Current, Given
<1>3. CASE Parse \/ StoreFails \/ Notify
  BY <1>3 DEF Parse, StoreFails, Notify, Ends, Current, Given
<1>4. CASE Report
  BY <1>4 DEF Report, options, Ends, Current, Given
<1>5. CASE LoadFails
  BY <1>5 DEF LoadFails, Ends, Current, Given
<1>6. CASE LoadEntry \/ Loaded \/ InsertDevice \/ Constructed
  BY <1>6 DEF LoadEntry, Loaded, InsertDevice, Constructed, options, Current, Given
<1>7. CASE CallRun
  BY <1>7, OptionsAssumption DEF CallRun, Current, Given, trace, warning
<1>8. CASE Running(Next)
  BY <1>8 DEF Running, options, Current, Given
<1>9. CASE UNCHANGED allVars
  BY <1>9 DEF allVars, mainVars, options, Current, Given
<1> QED BY <1>1, <1>2, <1>3, <1>4, <1>5, <1>6, <1>7, <1>8, <1>9 DEF MainNext, Start

LEMMA StartTypesAlways == MainSpec => []StartTypes
<1>1. ASSUME MainInit PROVE StartTypes
  <2>1. DOMAIN vm = {} /\ MaxUnsigned \in Nat
    BY <1>1, OptionsAssumption DEF MainInit
  <2>2. Current = 0
    BY <2>1 DEF Current, Given
  <2>3. errorMsg \in BOOLEAN /\ stage = "parse"
    BY <1>1 DEF MainInit
  <2>4. sev \in trace .. warning /\ Current \in 0 .. MaxUnsigned
    BY <1>1, <2>1, <2>2 DEF MainInit, trace, warning
  <2> QED BY <2>1, <2>3, <2>4 DEF StartTypes
<1>2. LineInv /\ StartTypes /\ [MainNext]_allVars => StartTypes'
  BY StartTypesStep
<1> QED BY <1>1, <1>2, LineAlways, PTL DEF MainSpec

\* main()'s variables and those of run() keep their types; in particular the
\* unsigned level wraps around and never leaves its width.
THEOREM MainTypes == MainSpec => []MainTypeOK
<1>1. LineInv /\ StartTypes /\ TypeOK => MainTypeOK
  BY DEF LineInv, StartTypes, MainTypeOK, Current
<1> QED BY <1>1, LineAlways, StartTypesAlways, RunTypes, PTL

-----------------------------------------------------------------------------
(***************************************************************************)
(* The level.                                                              *)
(***************************************************************************)

\* The first m options have given the level they say, unless it has wrapped
\* around; a number makes up for that.
LevelStored(m) ==
    Base(m) \in Nat /\ (LevelOf(m) <= MaxUnsigned => Current = LevelOf(m))

SevAsGiven ==
    LET level == LevelOf(Len(args))
    IN  level <= MaxUnsigned => sev = warning - Min({level, 3})

LevelInv ==
    /\ stage = "store" => LevelStored(next - 1)
    /\ stage = "report" /\ ~errorMsg => LevelStored(Len(args))
    /\ stage = "level" => LevelStored(Len(args))
    /\ stage \in {"load", "construct", "start"} => SevAsGiven

LEMMA MinOf == \A n \in Nat : Min({n, 3}) = IF n <= 3 THEN n ELSE 3
<1> SUFFICES ASSUME NEW n \in Nat
             PROVE  Min({n, 3}) = IF n <= 3 THEN n ELSE 3
  OBVIOUS
<1>1. CASE n <= 3
  BY <1>1 DEF Min
<1>2. CASE n > 3
  BY <1>2 DEF Min
<1> QED BY <1>1, <1>2

\* The level is a number that is not negative.
LEMMA LevelOfType ==
    ASSUME args \in Seq(Options), NEW m \in 0 .. Len(args), Base(m) \in Nat
    PROVE  LevelOf(m) \in Nat
BY RaisersFinite DEF LevelOf

\* One more option: a number sets the level, letters add to it.
LEMMA LevelStoreStep ==
    ASSUME LineInv, StartTypes, NEW m \in Nat, next = m + 1, LevelStored(m), StoreOption
    PROVE  LevelStored(m + 1)'
<1>1. m < Len(args) /\ args \in Seq(Options) /\ args' = args
  BY DEF LineInv, StoreOption
<1>2. Option = args[m + 1] /\ Option \in Options /\ Option.n \in Nat
  BY StoredOption DEF Options
<1>3. Base(m + 1) \in Nat /\ LevelOf(m) \in Nat
  BY <1>1, LevelNext, LevelOfType, LenProperties DEF LevelStored
<1>4. LevelOf(m + 1) <= MaxUnsigned => Current' = LevelOf(m + 1)
  <2>1. CASE Option.name # "verbose"
    BY <1>1, <1>2, <2>1, LevelNext, StoredLevel DEF LevelStored
  <2>2. CASE Option.name = "verbose" /\ Option.form = "number"
    <3>1. LevelOf(m + 1) = Option.n
      BY <1>1, <1>2, <2>2, LevelNext DEF LevelStored
    <3> QED BY <2>2, <3>1, StoredLevel DEF Level
  <2>3. CASE Option.name = "verbose" /\ Option.form # "number"
    <3>1. LevelOf(m + 1) = LevelOf(m) + Raises(m + 1)
      BY <1>1, <1>2, <2>3, LevelNext DEF LevelStored
    <3>2. Level(Current, Option) = (Current + Raises(m + 1)) % (MaxUnsigned + 1)
      <4>1. Current \in Nat
        BY OptionsAssumption DEF StartTypes
      <4> QED BY <1>2, <2>3, <4>1 DEF Level, Raises
    <3>3. Raises(m + 1) \in Nat
      BY <1>2 DEF Raises
    <3>4. ASSUME LevelOf(m + 1) <= MaxUnsigned PROVE Current' = LevelOf(m + 1)
      <4>1. LevelOf(m) <= MaxUnsigned
        BY <1>3, <3>1, <3>3, <3>4, OptionsAssumption
      <4>2. Current = LevelOf(m)
        BY <4>1 DEF LevelStored
      <4>3. \A x \in Nat, w \in Nat : x <= w => x % (w + 1) = x
        OBVIOUS
      <4>4. LevelOf(m + 1) % (MaxUnsigned + 1) = LevelOf(m + 1)
        <5>1. LevelOf(m + 1) \in Nat /\ MaxUnsigned \in Nat
          BY <1>3, <3>1, <3>3, OptionsAssumption
        <5> QED BY <3>4, <4>3, <5>1
      <4> QED BY <2>3, <3>1, <3>2, <4>2, <4>4, StoredLevel
    <3> QED BY <3>4
  <2> QED BY <2>1, <2>2, <2>3
<1>5. Base(m + 1)' = Base(m + 1) /\ LevelOf(m + 1)' = LevelOf(m + 1)
  BY <1>1, LevelUnchanged
<1> QED BY <1>3, <1>4, <1>5 DEF LevelStored

\* A step that leaves the line and the map alone leaves the level alone.
LEMMA LevelKept ==
    ASSUME UNCHANGED <<args, vm>>
    PROVE  \A m : LevelStored(m)' = LevelStored(m) /\ LevelOf(m)' = LevelOf(m)
<1>1. \A m : Base(m)' = Base(m) /\ LevelOf(m)' = LevelOf(m)
  BY LevelUnchanged
<1>2. Current' = Current
  BY DEF Current, Given
<1> QED BY <1>1, <1>2 DEF LevelStored

LEMMA LevelInvStep ==
    ASSUME LineInv, StartTypes, LevelInv, [MainNext]_allVars
    PROVE  LevelInv'
<1> USE DEF LevelInv
<1>1. CASE Parse
  <2>1. UNCHANGED <<args, vm, next>> /\ stage = "parse" /\ next = 1 /\ DOMAIN vm = {}
    BY <1>1 DEF Parse, LineInv
  <2>2. LevelStored(0)
    <3>1. Verbose(0) = {}
      BY DEF Verbose
    <3>2. Raisers(0) = {} /\ Numbers(0) = {}
      BY <3>1 DEF Raisers, Numbers
    <3>3. Base(0) = 0 /\ LevelOf(0) = 0
      <4>1. Cardinality(Units(Raisers(0))) = 0
        BY <3>2, UnitsOfNone
      <4> QED BY <3>2, <4>1 DEF Base, LevelOf
    <3>4. Current = 0
      BY <2>1 DEF Current, Given
    <3> QED BY <3>3, <3>4 DEF LevelStored
  <2>3. stage' = "store" \/ stage' = "aborted" \/ (stage' = "report" /\ errorMsg')
    BY <1>1 DEF Parse
  <2> QED BY <2>1, <2>2, <2>3, LevelKept
<1>2. CASE StoreOption
  <2>1. PICK m \in Nat : next = m + 1
    BY DEF LineInv
  <2>2. stage = "store" /\ stage' = "store" /\ next' = m + 2
    BY <1>2, <2>1 DEF StoreOption
  <2>3. LevelStored(m)
    BY <2>1, <2>2
  <2>4. LevelStored(m + 1)'
    BY <1>2, <2>1, <2>3, LevelStoreStep
  <2> QED BY <2>2, <2>4
<1>3. CASE StoreFails
  BY <1>3 DEF StoreFails
<1>4. CASE Notify
  <2>1. UNCHANGED <<args, vm>> /\ stage = "store" /\ stage' = "report"
    BY <1>4 DEF Notify
  <2>2. next - 1 = Len(args)
    BY <1>4, LenProperties DEF Notify, LineInv
  <2> QED BY <2>1, <2>2, LevelKept
<1>5. CASE Report
  BY <1>5, LevelKept DEF Report, options
<1>6. CASE SetLevel
  <2>1. UNCHANGED <<args, vm>> /\ stage = "level" /\ stage' = "load"
    BY <1>6 DEF SetLevel
  <2>2. LevelStored(Len(args)) /\ args \in Seq(Options)
    BY <2>1 DEF LineInv
  <2> DEFINE level == LevelOf(Len(args))
  <2>3. ASSUME level <= MaxUnsigned
        PROVE  sev' = warning - Min({level, 3})
    <3>1. Current = level
      BY <2>2, <2>3 DEF LevelStored
    <3>2. level \in Nat
      BY <2>2, LevelOfType, LenProperties DEF LevelStored
    <3> HIDE DEF level
    <3>3. Min({level, 3}) = IF level <= 3 THEN level ELSE 3
      BY <3>2, MinOf
    <3>4. sev' = IF Current <= 3 THEN warning - Current ELSE trace
      BY <1>6 DEF SetLevel, Current, warning
    <3> QED BY <3>1, <3>2, <3>3, <3>4 DEF warning, trace
  <2> QED BY <2>1, <2>3, LevelKept DEF SevAsGiven
<1>7. CASE LoadFails
  BY <1>7 DEF LoadFails
<1>8. CASE LoadEntry \/ Loaded \/ InsertDevice \/ Constructed
  <2>1. /\ stage \in {"load", "construct"} /\ stage' \in {"load", "construct", "start"}
        /\ UNCHANGED <<args, vm, sev>>
    BY <1>8 DEF LoadEntry, Loaded, InsertDevice, Constructed, options
  <2> QED BY <2>1, LevelKept DEF SevAsGiven
<1>9. CASE CallRun
  BY <1>9 DEF CallRun
<1>10. CASE Running(Next)
  BY <1>10 DEF Running
<1>11. CASE UNCHANGED allVars
  <2>1. UNCHANGED <<args, vm, sev, stage, next, errorMsg>>
    BY <1>11 DEF allVars, mainVars, options
  <2> QED BY <2>1, LevelKept DEF SevAsGiven
<1> QED BY <1>1, <1>2, <1>3, <1>4, <1>5, <1>6, <1>7, <1>8, <1>9, <1>10, <1>11
        DEF MainNext, Start

\* However -v, -vv and -v 2 are mixed on the command line, the log starts at
\* the level they say: validate() of OptionLevelT and setLogLevel.
THEOREM Verbosity == MainSpec => []VerbosityAsGiven
<1>1. MainInit => LevelInv
  BY DEF MainInit, LevelInv
<1>2. LineInv /\ StartTypes /\ LevelInv /\ [MainNext]_allVars => LevelInv'
  BY LevelInvStep
<1>3. LineInv /\ LevelInv => VerbosityAsGiven
  BY LevelOfAll DEF LineInv, LevelInv, SevAsGiven, VerbosityAsGiven
<1> QED BY <1>1, <1>2, <1>3, LineAlways, StartTypesAlways, PTL DEF MainSpec
=============================================================================
