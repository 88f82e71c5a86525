----------------------------- MODULE ServiceCards -----------------------------
(***************************************************************************)
(* The services of an image stack in the page that edits config.json.      *)
(* Each card keeps rows of its own for the ports and the volumes it shows, *)
(* so that a row may be half typed; the service gets what the rows amount  *)
(* to whenever one is touched.  A card is tied to a position in the list   *)
(* and not to a service.  A save writes the services, and the page opened  *)
(* again makes its cards from what was written.                            *)
(*                                                                         *)
(* Ports and volumes share nothing, so a behaviour is about one of them    *)
(* and a service is what it saves of that one.  A text is the list of its  *)
(* parts between colons: "8080:80" has two.  No text has an empty part,    *)
(* and none has spaces around it.                                          *)
(***************************************************************************)
EXTENDS Naturals, FiniteSets, SequencesExt

CONSTANTS MaxServices,          (* bound: the services of the stack *)
          MaxRows,              (* bound: the rows of one card *)
          Lefts, Rights         (* bound: what is typed as a host port or source, *)
                                (* and as a container port or path                *)

VARIABLES list,                 (* which of the two this is about *)
          images,               (* the services in the form *)
          cards,                (* the rows each card shows *)
          shifted               (* history: a service before another was removed *)

vars == <<list, images, cards, shifted>>

(* A part is a number, begins with one, or does not. *)
Parts   == {"80", "80x", "x"}
Texts   == Seq(Parts)
Entries == Texts \ {<<>>}
Rows    == [left : Texts, right : Texts]
BlankRow == [left |-> <<>>, right |-> <<>>]
UpTo(S, n) == UNION {[1..k -> S] : k \in 0..n}

(* What stands at the places, in their order. *)
Among(rows, places) ==
    LET Rank(i) == Cardinality({j \in places : j <= i})
    IN  [k \in 1..Cardinality(places) |-> rows[CHOOSE i \in places : Rank(i) = k]]

(* parseInt(t) || 0, where "none" is 0; and String(p || ''). *)
parseInt(t) == IF t = <<>> THEN "none" ELSE IF t[1] = "x" THEN "none" ELSE "80"
String(p)   == IF p = "none" THEN <<>> ELSE <<p>>

(* A row without a container port amounts to nothing; the first of the others *)
(* is the service's port and the rest are its extra_ports.                    *)
portRowsToFields(rows) ==
    LET valid == Among(rows, {i \in DOMAIN rows : rows[i].right # <<>>})
        Entry(k) == valid[k + 1].left \o valid[k + 1].right
    IN  IF valid = <<>> THEN [port |-> "none", host_port |-> <<>>, extra_ports |-> <<>>]
        ELSE [port        |-> parseInt(valid[1].right),
              host_port   |-> valid[1].left,
              extra_ports |-> [k \in 1..(Len(valid) - 1) |-> Entry(k)]]

(* Of an entry of three parts, an address before its ports, only the first is *)
(* shown, as a container port.                                                *)
imgToPortRows(img) ==
    LET first == IF img.host_port = <<>> /\ img.port = "none" THEN <<>>
                 ELSE <<[left |-> img.host_port, right |-> String(img.port)]>>
        Row(e) == IF Len(e) = 2 THEN [left |-> <<e[1]>>, right |-> <<e[2]>>]
                  ELSE [left |-> <<>>, right |-> <<e[1]>>]
        rows   == first \o [k \in DOMAIN img.extra_ports |-> Row(img.extra_ports[k])]
    IN  IF rows = <<>> THEN <<BlankRow>> ELSE rows

(* source:path, or the one of them there is: without a colon it is a source. *)
volumeRowsToArray(rows) ==
    LET valid == Among(rows, {i \in DOMAIN rows : rows[i] # BlankRow})
    IN  [k \in DOMAIN valid |-> valid[k].left \o valid[k].right]

imgToVolumeRows(img) ==
    IF img = <<>> THEN <<BlankRow>>
    ELSE [k \in DOMAIN img |-> [left |-> <<img[k][1]>>, right |-> Tail(img[k])]]

Saved(rows) == IF list = "ports" THEN portRowsToFields(rows) ELSE volumeRowsToArray(rows)
Shown(img)  == IF list = "ports" THEN imgToPortRows(img) ELSE imgToVolumeRows(img)

Services == IF list = "ports"
            THEN [port : {"none", "80"}, host_port : Texts, extra_ports : Seq(Entries)]
            ELSE Seq(Entries)

TypeOK == /\ list \in {"ports", "volumes"}
          /\ cards \in Seq(Seq(Rows))
          /\ images \in Seq(Services)
          /\ Len(images) = Len(cards)
          /\ shifted \in BOOLEAN

Unused == list = "ports" /\ images = <<>> /\ cards = <<>> /\ shifted = FALSE

(* What the wizard writes of its one port row, a host port without a number for *)
(* the container too; and no volumes.                                           *)
buildPayload(row) == IF list = "volumes" THEN <<>>
                     ELSE [port |-> parseInt(row.right), host_port |-> row.left, extra_ports |-> <<>>]

(* Written by the wizard, or by a save of this page. *)
Init == /\ list \in {"ports", "volumes"}
        /\ LET typed == [left : Lefts, right : Rights]
           IN  images \in {<<buildPayload(r)>> : r \in typed} \union {<<Saved(r)>> : r \in UpTo(typed, MaxRows)}
        /\ cards = [i \in DOMAIN images |-> Shown(images[i])]
        /\ shifted = FALSE

-----------------------------------------------------------------------------
(* Mutant: the service is computed from the rows of the last render. *)
SyncStale(i, rows) == /\ cards' = [cards EXCEPT ![i] = rows]
                      /\ images' = [images EXCEPT ![i] = Saved(cards[i])]
                      /\ UNCHANGED <<list, shifted>>

(* syncPorts and syncVolumes: the card's rows, and through the form the service. *)
Sync(i, rows) == /\ cards' = [cards EXCEPT ![i] = rows]
                 /\ images' = [images EXCEPT ![i] = Saved(rows)]
                 /\ UNCHANGED <<list, shifted>>

TypeInRow(i, r) ==
    /\ r \in DOMAIN cards[i]
    /\ \/ \E t \in Lefts  : Sync(i, [cards[i] EXCEPT ![r] = [left |-> t, right |-> @.right]])
       \/ \E t \in Rights : Sync(i, [cards[i] EXCEPT ![r] = [left |-> @.left, right |-> t]])

(* The last port row cannot be removed, the last volume row can. *)
RemoveRow(i, r) == /\ r \in DOMAIN cards[i]
                   /\ list = "ports" => Len(cards[i]) > 1
                   /\ Sync(i, RemoveAt(cards[i], r))

AddRow(i) == /\ Len(cards[i]) < MaxRows
             /\ cards' = [cards EXCEPT ![i] = Append(@, BlankRow)]
             /\ UNCHANGED <<list, images, shifted>>

(* Bound: while the cards are not those of their services, none is added. *)
AddService == /\ Len(images) < MaxServices /\ ~shifted
              /\ images' = Append(images, Saved(<<>>))
              /\ cards' = Append(cards, Shown(Saved(<<>>)))
              /\ UNCHANGED <<list, shifted>>

(* The cards keep their positions and the last one goes, whichever service went. *)
RemoveService(i) == /\ Len(images) > 1
                    /\ images' = RemoveAt(images, i)
                    /\ cards' = Front(cards)
                    /\ shifted' = (shifted \/ i < Len(images))
                    /\ UNCHANGED list

(* The page saves, and is opened again. *)
Reopen == /\ images # <<>>
          /\ cards' = [i \in DOMAIN images |-> Shown(images[i])]
          /\ shifted' = FALSE
          /\ UNCHANGED <<list, images>>

-----------------------------------------------------------------------------
Next == \/ AddService \/ Reopen
        \/ \E i \in DOMAIN images :
              \/ AddRow(i) \/ RemoveService(i)
              \/ \E r \in 1..MaxRows : RemoveRow(i, r) \/ TypeInRow(i, r)

Spec == Init /\ [][Next]_vars

-----------------------------------------------------------------------------
(* The services a card cannot show: the first of the ports has no number, or one *)
(* of the others binds an address.                                               *)
Numberless(img) == img.port = "none" /\ (img.host_port # <<>> \/ img.extra_ports # <<>>)
Bound(img)      == \E k \in DOMAIN img.extra_ports : Len(img.extra_ports[k]) > 2

(* What a card shows is what its service saves, and the next touch of a row     *)
(* changes nothing but that row: whatever half-typed rows come and go, and      *)
(* through any number of saves and openings of the page.  Two things are set    *)
(* aside.  Once a service before another is removed the cards show, until the   *)
(* page is opened again, the rows of the services that stood in their places    *)
(* (key={i} in ImagesEditor).  And of ports that are Numberless or Bound, which *)
(* the wizard and the page itself may write, a card does lose a part            *)
(* (imgToPortRows and portRowsToFields).                                        *)
CardsTellTheTruth ==
    ~shifted => \A i \in DOMAIN images :
                   \/ images[i] = Saved(cards[i])
                   \/ list = "ports" /\ (Numberless(images[i]) \/ Bound(images[i]))
=============================================================================
