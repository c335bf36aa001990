------------------------------ MODULE CellScan ------------------------------
(***************************************************************************)
(* The list of cells of GET /api/cells.  qmicli is asked first, then       *)
(* ModemManager, then mmcli, and AT commands fill in what the record of    *)
(* the serving cell does not have; the modem may change its cell between   *)
(* any two of these questions.  A field of a record is the cell it is      *)
(* said of, so that a wrong field shows; a band goes with its channel.     *)
(***************************************************************************)
EXTENDS Naturals, FiniteSets

CONSTANTS
  Towers,    \* cells
  Pci,       \* the physical identity of each, which others may have too
  ArfcnOf,   \* its channel number (EARFCN)
  BandOf,    \* the band of each channel
  Tabled,    \* channels in the table of lte_band_from_earfcn
  None,      \* an empty field
  MaxMoves   \* bound on changes of the serving cell

ASSUME CellAssumption ==
  /\ ArfcnOf \in [Towers -> DOMAIN BandOf] /\ Tabled \subseteq DOMAIN BandOf
  /\ DOMAIN Pci = Towers
  /\ None \notin Towers /\ None \notin DOMAIN BandOf
  /\ None \notin {BandOf[c] : c \in DOMAIN BandOf} /\ None \notin {Pci[t] : t \in Towers}
  /\ MaxMoves \in Nat

VARIABLES
  near,     \* cells the modem hears
  camped,   \* the one that serves it
  oneBand,  \* CurrentBands has one band only
  stage,    \* the question that is next
  serving,  \* the record of the serving cell
  listed,   \* the records of the answer
  moves,
  unsure    \* history: what the answer cannot know (see CellsTold)

cellScan == <<near, camped, oneBand, stage, serving, listed, moves, unsure>>

-----------------------------------------------------------------------------
Pcis   == {Pci[t] : t \in Towers}
Arfcns == DOMAIN BandOf
Bands  == {BandOf[c] : c \in Arfcns}
TowerBand(t) == BandOf[ArfcnOf[t]]

CellRecord == [pci : Pcis \cup {None}, arfcn : Arfcns \cup {None}, band : Bands \cup {None},
               id : Towers \cup {None}, serves : BOOLEAN, by : {"qmi", "mm", "mmcli", "at"}]
Blank == [pci |-> None, arfcn |-> None, band |-> None, id |-> None, serves |-> TRUE,
          by |-> "mmcli"]

CellTypeOK ==
  /\ near \subseteq Towers /\ camped \in near /\ oneBand \in BOOLEAN
  /\ stage \in {"rest", "qmi", "mm", "mmcli", "cced", "muestats", "sband", "qnwinfo", "fill",
                "done"}
  /\ serving \in CellRecord /\ listed \subseteq CellRecord
  /\ moves \in 0..MaxMoves
  /\ unsure \subseteq {"moved", "twin", "unserved", "unlabelled", "bare"}

CellInit ==
  /\ near \in SUBSET Towers /\ camped \in near
  /\ oneBand \in BOOLEAN
  /\ oneBand => \A t, u \in near : TowerBand(t) = TowerBand(u)
  /\ stage = "rest" /\ serving = Blank /\ listed = {} /\ moves = 0 /\ unsure = {}

Told(x, given) == IF given THEN x ELSE None

\* What is there is kept.
Filled(field, x) == IF field = None THEN x ELSE field

\* lte_band_from_earfcn
BandAt(arfcn) == IF arfcn \in Tabled THEN BandOf[arfcn] ELSE None

AskCells ==
  /\ stage = "rest" /\ stage' = "qmi"
  /\ UNCHANGED <<near, camped, oneBand, serving, listed, moves, unsure>>

Reselect ==
  /\ stage \notin {"rest", "done"}
  /\ moves < MaxMoves /\ moves' = moves + 1
  /\ camped' \in near \ {camped}
  /\ unsure' = unsure \cup {"moved"}
  /\ UNCHANGED <<near, oneBand, stage, serving, listed>>

-----------------------------------------------------------------------------
\* The line of a channel has a label with its band, except those in blank: their
\* cells get the band on the line of the serving cell's channel.
QmiBand(t, blank) ==
  IF ArfcnOf[t] \notin blank THEN TowerBand(t)
  ELSE Told(TowerBand(camped), ArfcnOf[camped] \notin blank)

\* A cell is marked as it is read, by its identity alone.
QmiRecord(t, match, blank) ==
  [pci |-> Pci[t], arfcn |-> ArfcnOf[t], band |-> QmiBand(t, blank),
   id |-> Told(camped, match), serves |-> match, by |-> "qmi"]

\* parse_qmicli_cell_location_output: if no cell R has the identity of the serving
\* one the first is it, and those of its own channel come first.
QmiTwins(R) == {t \in R : Pci[t] = Pci[camped]}
QmiLists(R, blank) ==
  LET intra == {t \in R : ArfcnOf[t] = ArfcnOf[camped]}
      first == IF intra # {} THEN intra ELSE R
  IN  {{QmiRecord(t, t \in s, blank) : t \in R} :
         s \in IF QmiTwins(R) # {} THEN {QmiTwins(R)} ELSE {{t} : t \in first}}

\* Without intra-frequency information no cell is marked, and no band is lent.
QmiUnmarked(R, blank) ==
  {[QmiRecord(t, FALSE, blank) EXCEPT !.band = Told(TowerBand(t), ArfcnOf[t] \notin blank)] :
     t \in R}

AskQmi ==
  /\ stage = "qmi"
  /\ \/ stage' = "mm" /\ UNCHANGED <<listed, unsure>>      \* no port, or no cells
     \/ \E R \in SUBSET near \ {{}}, blank \in SUBSET Arfcns :
          /\ listed' \in QmiLists(R, blank) \cup {QmiUnmarked(R, blank)}
          /\ unsure' = unsure \cup (IF QmiTwins(R) \subseteq {camped} THEN {} ELSE {"twin"})
                              \cup (IF camped \in R THEN {} ELSE {"unserved"})
                              \cup (IF \A t \in R : QmiBand(t, blank) \in {TowerBand(t), None}
                                    THEN {} ELSE {"unlabelled"})
          /\ stage' = "done"
  /\ UNCHANGED <<near, camped, oneBand, serving, moves>>

\* A cell of GetCellInfo may lack any field, and the band is told only if the modem
\* uses a single one.
MmRecord(t, tells) ==
  [pci |-> Told(Pci[t], "pci" \in tells), arfcn |-> Told(ArfcnOf[t], "arfcn" \in tells),
   band |-> Told(TowerBand(t), oneBand), id |-> Told(t, "id" \in tells),
   serves |-> t = camped, by |-> "mm"]

AskModemManager ==
  /\ stage = "mm"
  /\ \/ stage' \in {"mmcli", "rest"} /\ UNCHANGED <<serving, listed>>  \* unsupported; an error
     \/ \E R \in SUBSET near \ {{}}, tells \in SUBSET {"pci", "arfcn", "id"} :
          IF camped \in R /\ ~oneBand
          THEN /\ serving' = MmRecord(camped, tells)
               /\ listed' = {MmRecord(t, tells) : t \in R \ {camped}}
               /\ stage' = "cced"
          ELSE /\ listed' = {MmRecord(t, tells) : t \in R}
               /\ stage' = "done" /\ UNCHANGED serving
  /\ UNCHANGED <<near, camped, oneBand, moves, unsure>>

\* The output of mmcli knows at most the identity.
MmcliRecord(id) == [Blank EXCEPT !.id = id, !.band = Told(TowerBand(camped), oneBand)]

AskMmcli ==
  /\ stage = "mmcli"
  /\ \/ stage' = "rest" /\ UNCHANGED serving
     \/ /\ \E id \in {camped, None} : serving' = MmcliRecord(id)
        /\ stage' = "cced"
  /\ UNCHANGED <<near, camped, oneBand, listed, moves, unsure>>

-----------------------------------------------------------------------------
(* enrich_cells_via_at: each command may be one the modem does not know.     *)

\* +CCED gives everything and replaces the identity.
AskCced ==
  /\ stage = "cced" /\ stage' = "muestats"
  /\ \/ UNCHANGED serving
     \/ \E band \in {TowerBand(camped), None} :
          serving' = [serving EXCEPT !.band = Filled(Filled(@, band), BandAt(ArfcnOf[camped])),
                        !.arfcn = Filled(@, ArfcnOf[camped]), !.pci = Filled(@, Pci[camped]),
                        !.id = camped]
  /\ UNCHANGED <<near, camped, oneBand, listed, moves, unsure>>

\* The line of the serving cell
Scell == [serving EXCEPT !.arfcn = Filled(@, ArfcnOf[camped]), !.pci = Filled(@, Pci[camped]),
                         !.band = Filled(@, BandAt(ArfcnOf[camped]))]

\* Mutant: the serving cell is not left out.
NeighboursAll(s, R, lacks) ==
  {[pci |-> Pci[t], arfcn |-> Told(ArfcnOf[t], t \notin lacks),
    band |-> Filled(BandAt(Told(ArfcnOf[t], t \notin lacks)),
                    Told(s.band, t \in lacks \/ ArfcnOf[t] = s.arfcn)),
    id |-> None, serves |-> FALSE, by |-> "at"] : t \in R}

\* The lines of the others, without the one that has the serving cell's identity
\* and channel; those whose channel is not told, or not in the table, get its band.
Neighbours(s, R, lacks) ==
  {[pci |-> Pci[t], arfcn |-> Told(ArfcnOf[t], t \notin lacks),
    band |-> Filled(BandAt(Told(ArfcnOf[t], t \notin lacks)),
                    Told(s.band, t \in lacks \/ ArfcnOf[t] = s.arfcn)),
    id |-> None, serves |-> FALSE, by |-> "at"] :
      t \in {u \in R : s.pci = None \/ s.arfcn = None \/ u \in lacks
                       \/ Pci[u] # s.pci \/ ArfcnOf[u] # s.arfcn}}

AskMuestats ==
  /\ stage = "muestats" /\ stage' = "sband"
  /\ \/ UNCHANGED <<serving, listed, unsure>>
     \/ \E s \in {serving, Scell}, R \in SUBSET near, lacks \in SUBSET (near \ {camped}) :
          /\ lacks \subseteq R
          /\ serving' = s
          /\ listed' = listed \cup Neighbours(s, R, lacks)
          /\ unsure' = IF None \in {s.pci, s.arfcn} THEN unsure \cup {"bare"} ELSE unsure
  /\ UNCHANGED <<near, camped, oneBand, moves>>

AskSband ==
  /\ stage = "sband" /\ stage' = "qnwinfo"
  /\ \E band \in {TowerBand(camped), None} :
       serving' = [serving EXCEPT !.band = Filled(@, band)]
  /\ UNCHANGED <<near, camped, oneBand, listed, moves, unsure>>

AskQnwinfo ==
  /\ stage = "qnwinfo" /\ stage' = "fill"
  /\ \/ UNCHANGED serving
     \/ /\ serving.band = None \/ serving.arfcn = None
        /\ serving' = [serving EXCEPT !.band = Filled(@, TowerBand(camped)),
                                      !.arfcn = Filled(@, ArfcnOf[camped])]
  /\ UNCHANGED <<near, camped, oneBand, listed, moves, unsure>>

\* The band of the channel, and that of the serving cell for the neighbours of AT
\* that are on its channel; a list with nothing in it is not shown.
Fill ==
  /\ stage = "fill" /\ stage' = "done"
  /\ LET s == [serving EXCEPT !.band = Filled(@, BandAt(serving.arfcn))]
         On(r) == r.by = "at" /\ (r.arfcn = None \/ r.arfcn = s.arfcn)
         all == {IF On(r) THEN [r EXCEPT !.band = Filled(@, s.band)] ELSE r : r \in listed}
     IN  /\ serving' = s
         /\ listed' = IF s.by = "mmcli" /\ s.id = None /\ s.arfcn = None /\ all = {}
                      THEN {} ELSE all \cup {s}
  /\ UNCHANGED <<near, camped, oneBand, moves, unsure>>

CellNext ==
  \/ AskCells \/ Reselect \/ AskQmi \/ AskModemManager \/ AskMmcli
  \/ AskCced \/ AskMuestats \/ AskSband \/ AskQnwinfo \/ Fill

-----------------------------------------------------------------------------
\* The record says nothing that is not of this cell.
IsOf(r, t) ==
  /\ r.pci \in {None, Pci[t]} /\ r.arfcn \in {None, ArfcnOf[t]}
  /\ r.band \in {None, TowerBand(t)} /\ r.id \in {None, t}

\* Whatever the modem answers and whichever way its answers are mixed, each record
\* is of one cell, the record of the serving cell is of that cell, is the only one,
\* and is not among the neighbours again.  The exceptions are named: a modem that
\* changed its cell meanwhile (for the serving cell and channels that are not in
\* the table), a cell of the same physical identity or a serving cell left out of
\* the list of qmicli, the band of a neighbour whose channel has no label there,
\* neighbours whose channel is not told, and neighbours that came when nothing told
\* the serving cell's identity and channel.  (get_cells_data, enrich_cells_via_at)
CellsTold ==
  stage = "done" =>
    /\ \A r \in listed :
         IF r.serves
         THEN unsure \subseteq {"bare", "unlabelled"} =>
                IsOf(r, camped) /\ \A q \in listed : q.serves => q = r
         ELSE r.arfcn \in Tabled \/ (r.arfcn # None /\ "moved" \notin unsure)
                => \E t \in near :
                     IsOf(IF "unlabelled" \in unsure THEN [r EXCEPT !.band = None] ELSE r, t)
    /\ unsure = {} => \A r, q \in listed :
         r.serves /\ q.by = "at" /\ r.pci # None /\ q.arfcn # None
           => ~(q.pci = r.pci /\ q.arfcn = r.arfcn)
=============================================================================
