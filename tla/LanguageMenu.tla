---------------------------- MODULE LanguageMenu ----------------------------
(***************************************************************************)
(* language_menu.c and language_menu_policy.c: three entries of the game   *)
(* are patched so that its menu offers every language of its text file.    *)
(* The vector of labels and the toggle belong to the game and so does the  *)
(* language it speaks; the shim keeps an index and a locale beside them.   *)
(* A choice is its index in the policy: 0 is the language of the system,   *)
(* LastChoice is the TITAN alphabet, and a language in between is also the *)
(* name of its locale, 1 being English.                                    *)
(***************************************************************************)
EXTENDS Naturals, Sequences

CONSTANT LastChoice  \* ts_language_choice_count() - 1; 6 in the program

ASSUME LastChoiceAssumption == LastChoice \in Nat /\ LastChoice > 1

Choices == 0..LastChoice
Locales == 1..(LastChoice - 1)
English == 1
Titan   == LastChoice
NoKey   == LastChoice + 1   \* no key in config.txt, or an unknown one

VARIABLES
  prepared,   \* ts_language_menu_prepare has returned
  sysLocale,  \* g_system_locale
  selIndex,   \* g_selected_index
  locale,     \* g_locale
  entries,    \* the labels of the toggle of the game; <<>> without a menu
  shown,      \* the selection of that toggle, from 0
  spoken      \* external: the locale of the language the game uses, or Titan

menuVars == <<prepared, sysLocale, selIndex, locale, entries, shown, spoken>>

MenuTypeOK ==
  /\ prepared \in BOOLEAN
  /\ sysLocale \in Locales /\ locale \in Locales
  /\ selIndex \in Choices
  /\ entries \in Seq(Choices) /\ Len(entries) <= LastChoice + 1
  /\ shown \in Choices
  /\ spoken \in Locales \cup {Titan}

\* ts_language_choice_at(choice)->ag_locale, with that of the system for the
\* first choice.
LocaleOf(choice, native) ==
  IF choice = 0 THEN native ELSE IF choice = Titan THEN English ELSE choice

MenuInit ==
  /\ prepared = FALSE
  /\ sysLocale = English /\ locale = English /\ selIndex = 0
  /\ entries = <<>> /\ shown = 0 /\ spoken = English

-----------------------------------------------------------------------------
\* ts_language_menu_prepare: the persisted key of config.txt decides, the
\* environment gives the locale of the system.  The game loads its language
\* from the same file by rules of its own.
PrepareMenu(native, key) ==
  /\ ~prepared
  /\ prepared' = TRUE
  /\ sysLocale' = native
  /\ selIndex' = IF key = NoKey THEN 0 ELSE key
  /\ locale' = LocaleOf(selIndex', native)
  /\ spoken' \in Locales \cup {Titan}
  /\ UNCHANGED <<entries, shown>>

\* External: the game builds its options menu, anew each time it is opened,
\* with its own two choices and its own idea of the selection.
MenuBuilt ==
  /\ prepared
  /\ entries' = <<0, Titan>>
  /\ shown' \in {0, 1}
  /\ UNCHANGED <<prepared, sysLocale, selIndex, locale, spoken>>

\* complete_language_choices: n of the middle choices are appended ...
Appended(n) ==
  [i \in 1..(n + 2) |-> IF i <= 2 THEN entries[i] ELSE i - 2]

\* Mutant: the label of TITAN stays second.
TitanLeftSecond(v) == v

\* ... and the label of TITAN is moved behind them.
TitanMovedLast(v) ==
  [i \in 1..Len(v) |->
     IF i = 1 THEN v[1] ELSE IF i = Len(v) THEN v[2] ELSE v[i + 1]]

Complete(v) == Len(v) = LastChoice + 1

\* ts_options_added, after the game's own UIMenu::Added: a menu that is not
\* two choices long is left as it is, and the toggle follows the shim's index
\* when all choices are there.
OptionsAdded ==
  /\ entries # <<>>
  /\ entries' = IF Len(entries) = 2
                THEN TitanMovedLast(Appended(LastChoice - 1)) ELSE entries
  /\ shown' = IF Complete(entries') THEN selIndex ELSE shown
  /\ UNCHANGED <<prepared, sysLocale, selIndex, locale, spoken>>

\* The construction of label n + 1 fails: those before it stay appended.
OptionsAddedPart(n) ==
  /\ Len(entries) = 2
  /\ entries' = Appended(n)
  /\ UNCHANGED <<prepared, sysLocale, selIndex, locale, shown, spoken>>

\* External: the player moves the toggle.
Toggle(i) ==
  /\ i < Len(entries)
  /\ shown' = i
  /\ UNCHANGED <<prepared, sysLocale, selIndex, locale, entries, spoken>>

\* Mutant: the count of the labels is not compared with the policy.
SwitchUncounted ==
  /\ shown < Len(entries)
  /\ selIndex' = shown
  /\ locale' = LocaleOf(shown, sysLocale)
  /\ UNCHANGED <<prepared, sysLocale, entries, shown>>

\* ts_apply_language: refused unless all choices are there.  The index and
\* the locale are switched first.
Switch ==
  /\ Complete(entries) /\ shown < Len(entries)
  /\ selIndex' = shown
  /\ locale' = LocaleOf(shown, sysLocale)
  /\ UNCHANGED <<prepared, sysLocale, entries, shown>>

\* Language::ChangeLanguage is called with "titan" or with "systemlang", for
\* which the game asks ts_current_system_language, which answers the locale.
ApplyLanguage ==
  /\ Switch
  /\ spoken' = IF shown = LastChoice THEN Titan ELSE locale'

\* The key of the language could not be constructed: the index and the
\* locale have been switched, the game still speaks what it spoke.
ApplyFails == Switch /\ UNCHANGED spoken

MenuNext ==
  \/ \E native \in Locales, key \in Choices \cup {NoKey} :
       PrepareMenu(native, key)
  \/ MenuBuilt
  \/ OptionsAdded
  \/ \E n \in 0..(LastChoice - 2) : OptionsAddedPart(n)
  \/ \E i \in Choices : Toggle(i)
  \/ ApplyLanguage \/ ApplyFails

MenuSpec == MenuInit /\ [][MenuNext]_menuVars

-----------------------------------------------------------------------------
\* Properties

\* The language that the label of a choice promises.
Promised(label) == IF label = Titan THEN Titan ELSE LocaleOf(label, sysLocale)

\* Once the game runs, its language changes only to that of the label under
\* the toggle, however far the extension of the menu has come: an index of
\* the game's own two-choice menu, or of one whose extension stopped half-way,
\* where the labels are not in the order of the policy, never selects.
SpokenAsShown ==
  [][spoken' # spoken /\ prepared =>
       spoken' = Promised(entries[shown + 1])]_menuVars

\* Where a complete menu is on the screen, the index that the shim restores
\* when the menu is opened again is the label of the locale it answers to the
\* game: index, locale and the order of the labels never disagree.
IndexIsLabel ==
  prepared /\ Complete(entries) =>
    locale = LocaleOf(entries[selIndex + 1], sysLocale)
=============================================================================
