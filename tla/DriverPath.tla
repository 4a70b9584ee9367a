------------------------------- MODULE DriverPath -------------------------------
(***************************************************************************)
(* Link::DriverPath (LinkDriverPath.cpp): the name of a connection, one     *)
(* text that a program builds from its parts, or gets from a user, takes    *)
(* apart again and compares with another.  A part may be left empty, and    *)
(* then stands for any.                                                     *)
(*                                                                         *)
(* A text is a sequence of symbols: the two delimiters and words without    *)
(* one.  A serial device is a word on one host ("COM1") and has delimiters  *)
(* on another ("/dev/tty").                                                 *)
(***************************************************************************)
EXTENDS Integers, FiniteSets, Sequences

CONSTANTS
  Words,         (* what may stand between two delimiters                   *)
  Vendors, Products, Interfaces, SerialNumbers, DevicePaths  (* parts       *)

Delimiters == {"/", "@"}
Empty      == <<>>
Plain(t)   == \A i \in DOMAIN t : t[i] \notin Delimiters
Texts      == Seq(Words \union Delimiters)

ASSUME PartsAssumption ==
  /\ {"usb", "serial"} \subseteq Words /\ Words \intersect Delimiters = {}
  /\ Vendors \union Products \union Interfaces \union SerialNumbers \subseteq Seq(Words)
  /\ DevicePaths \subseteq Texts
  /\ Empty \in Vendors \intersect Products \intersect Interfaces
  /\ Empty \in SerialNumbers \intersect DevicePaths

VARIABLES
  keeps,    (* what the library's operator/ does with an empty part: TRUE if*)
            (* it still adds the delimiter; constant                        *)
  path,     (* text of a DriverPath                                         *)
  options,  (* history: what it was constructed from, None if from a text   *)
  other, otherOptions       (* a second one, to compare with                *)

pathVars == <<keeps, path, options, other, otherOptions>>

Construct == [type : {"usb", "serial"}, vendor : Vendors, product : Products,
              interface : Interfaces, serial : SerialNumbers, device : DevicePaths]
None == [type |-> "none"]

-----------------------------------------------------------------------------
(* var::PathString operator/.                                               *)
Slash(t, part) == IF part = Empty /\ ~keeps THEN t ELSE t \o <<"/">> \o part

UsbParts(o) == <<o.vendor, o.product, o.interface, o.serial, o.device>>

(* The constructor from parts.                                              *)
Text(o) ==
  IF o.type = "serial" THEN Slash(<<"@", "serial">>, o.device)
  ELSE LET ids == Slash(Slash(<<"@", "usb">>, o.vendor), o.product)
       IN  Slash(Slash(Slash(ids, o.interface), o.serial), o.device)

DelimitersButOne == 5
DelimitersRead   == 6

(* The delimiters in the first n symbols of a text, and its k-th one.       *)
DelimitersIn(t, n) == {j \in 1 .. n : t[j] \in Delimiters}
Nth(t, k) ==
  {i \in DelimitersIn(t, Len(t)) : Cardinality(DelimitersIn(t, i)) = k}

(* Where token k ends and the next starts, and how many there are.          *)
Cut(t, k) ==
  IF k = 0 THEN 0
  ELSE IF k > DelimitersRead \/ Nth(t, k) = {} THEN Len(t) + 1
  ELSE CHOOSE i \in Nth(t, k) : TRUE

Tokens(t) ==
  LET n == Cardinality(DelimitersIn(t, Len(t))) IN
  1 + IF n < DelimitersRead THEN n ELSE DelimitersRead

(* split: the tokens between the first delimiters; the last token is the    *)
(* rest of the text, whatever is in it.                                     *)
Split(t) ==
  [k \in 1 .. Tokens(t) |-> SubSeq(t, Cut(t, k - 1) + 1, Cut(t, k) - 1)]

(* get_value_at_position; the token before the first delimiter is at 0.     *)
ValueAt(tokens, position) ==
  IF Len(tokens) > position THEN tokens[position + 1] ELSE Empty

TypeIn(tokens) ==
  LET name == ValueAt(tokens, 1) IN
  IF name \in {<<"usb">>, <<"serial">>} THEN Head(name) ELSE "null"

TypeOf(t) == TypeIn(Split(t))

(* The getters.                                                             *)
Parts(t) ==
  LET tokens == Split(t)
      type   == TypeIn(tokens)
      Get(ofType, position) == IF type = ofType THEN ValueAt(tokens, position) ELSE Empty
  IN [type      |-> type,
      vendor    |-> Get("usb", 2),
      product   |-> Get("usb", 3),
      interface |-> Get("usb", 4),
      serial    |-> Get("usb", 5),
      device    |-> Get("serial", 2)]

UsbFields == {"vendor", "product", "interface", "serial"}
Fields    == UsbFields \union {"device"}

IsValid(t) == t = Empty \/ TypeOf(t) # "null"

IsPartial(t) ==
  LET p == Parts(t) IN
  CASE p.type = "usb"    -> \E f \in UsbFields : p[f] = Empty
    [] p.type = "serial" -> p.device = Empty
    [] OTHER             -> TRUE

(* Two values conflict if both are given and they are not the same.         *)
ConflictStrict(x, y) == x # y
Conflict(x, y) == x # Empty /\ y # Empty /\ x # y

(* operator==.  If both are serial only the devices can conflict, as the    *)
(* other parts are empty.                                                   *)
Same(s, t) ==
  LET a == Parts(s)  b == Parts(t) IN
  /\ "null" \in {a.type, b.type} \/ a.type = b.type
  /\ \A f \in Fields : ~Conflict(a[f], b[f])

-----------------------------------------------------------------------------
PathInit ==
  /\ keeps \in BOOLEAN
  /\ path = Empty /\ options = None
  /\ other = Empty /\ otherOptions = None

(* A DriverPath is constructed from its parts, ...                          *)
ConstructPath ==
  /\ options = None
  /\ options' \in Construct
  /\ path' = Text(options')
  /\ UNCHANGED <<keeps, other, otherOptions>>

(* ... and another, to compare with it.                                     *)
ConstructOther ==
  /\ options # None /\ other = Empty
  /\ otherOptions' \in Construct
  /\ other' = Text(otherOptions')
  /\ UNCHANGED <<keeps, path, options>>

(* A DriverPath is constructed from a text: one that the first printed, or  *)
(* as much of it as somebody wrote down, with or without the sign in front. *)
ReadPath ==
  /\ options # None /\ other = Empty
  /\ \E n \in 0 .. Len(path), from \in 1 .. 2 : other' = SubSeq(path, from, n)
  /\ otherOptions' = IF other' = path THEN options ELSE None
  /\ UNCHANGED <<keeps, path, options>>

PathNext == ConstructPath \/ ConstructOther \/ ReadPath

PathSpec == PathInit /\ [][PathNext]_pathVars

-----------------------------------------------------------------------------
(* A path whose parts stay where they are: none is empty in front of        *)
(* another, unless empty parts keep their delimiter.                        *)
Placed(o) ==
  o.type = "serial" \/ keeps
    \/ \A i \in 2 .. 5 : UsbParts(o)[i] # Empty => UsbParts(o)[i - 1] # Empty

(* The parts that are read again: all of a usb path but its device, and the *)
(* device of a serial path if it is one word.                               *)
Readable(o) == Placed(o) /\ (o.type = "serial" => Plain(o.device))

Given(o, f) ==
  IF (o.type = "usb") <=> (f \in UsbFields) THEN o[f] ELSE Empty

(* A path that was constructed is read back to what it was constructed from,*)
(* also when its last part is full of delimiters, and is partial exactly if *)
(* a part of it was left open.                                              *)
ReadsBack ==
  options # None /\ Readable(options)
    => LET p == Parts(path) IN
       /\ IsValid(path) /\ p.type = options.type
       /\ \A f \in Fields : p[f] = Given(options, f)
       /\ IsPartial(path) <=>
            IF options.type = "usb" THEN \E f \in UsbFields : options[f] = Empty
                                    ELSE options.device = Empty

(* Two paths are the same exactly if they are of the same type and whatever *)
(* both were given agrees; so a partial path finds every path it stands for,*)
(* and the order of the two does not matter.                                *)
SameIfNoConflict ==
  options # None /\ otherOptions # None /\ Readable(options) /\ Readable(otherOptions)
    => /\ Same(path, other) <=>
            /\ options.type = otherOptions.type
            /\ \A f \in Fields :
                 LET x == Given(options, f)  y == Given(otherOptions, f) IN
                 Empty \in {x, y} \/ x = y
       /\ Same(path, other) <=> Same(other, path)

IsStart(s, t) == Len(s) <= Len(t) /\ s = SubSeq(t, 1, Len(s))

(* A text that breaks off finds whatever it was the start of: what somebody *)
(* wrote of a path, up to the end of a part, is the same as the path.       *)
StartFindsIt ==
  options # None /\ IsStart(other, path)
    /\ (Len(other) = Len(path) \/ path[Len(other) + 1] = "/")
    => Same(path, other)

=============================================================================
