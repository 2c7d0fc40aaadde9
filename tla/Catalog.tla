------------------------------- MODULE Catalog -------------------------------
(***************************************************************************)
(* The track catalog: its validation, the layouts offered to a client, the *)
(* approved geometry overlay and the capabilities derived from it.         *)
(*                                                                         *)
(* A source is [complete, production]: no field is empty; its type is on   *)
(* the production allowlist. IDs are numbers, 0 the empty string. Named    *)
(* says that the name is not empty. Distances are integers, in metres in   *)
(* the catalog and in centimetres in the geometry; points lie on a line    *)
(* (x), so that distances between points are exact.                        *)
(***************************************************************************)
EXTENDS Integers, FiniteSetsExt, SequencesExt

CONSTANT MinMicroSectorPoints  \* 8 in the code

\* The sources of a description are complete; none is fine.
validateSources(sources) == \A s \in sources : s.complete

requireProductionSources(sources) ==
    sources # {} /\ validateSources(sources) /\ \A s \in sources : s.production

filterProductionSources(sources) == {s \in sources : s.production}

Elements(s) == {s[i] : i \in DOMAIN s}

-----------------------------------------------------------------------------
\* Sectors are ordered and disjoint; every sector is checked against the one before it.
validateSectors(sectors, length) ==
    \A i \in DOMAIN sectors :
        LET s == sectors[i] IN
        /\ s.named
        /\ validateSources(s.sources)
        /\ 0 <= s.start /\ s.start < s.end /\ s.end <= length
        /\ i > 1 => s.start >= sectors[i - 1].end

WrapsAround(c) == c.start > c.end

\* The range of a corner may lead over the start line; the apex lies inside.
validateCornerRange(c, length) ==
    /\ {c.start, c.apex, c.end} \subseteq 0 .. length
    /\ c.start # c.end
    /\ c.start < c.end => c.start < c.apex /\ c.apex < c.end
    /\ WrapsAround(c) => c.apex >= c.start \/ c.apex < c.end

IsManual(c) == c.mode = "catalog_manual"

\* Faulty: the corner over the start line is not compared with the first one.
NotOverlappingFirst(c, i, corners) == TRUE

\* A corner that leads over the start line ends before the first one starts.
ClearOfFirst(c, i, corners) ==
    LET first == Min({j \in 1 .. i : IsManual(corners[j])}) IN
    WrapsAround(c) /\ Len(corners) > 1 => c.end <= corners[first].start

\* Corners with a position come in order and do not overlap; only the last
\* corner may lead over the start line. Enumerated corners have no position.
validateCorners(corners, length) ==
    \A i \in DOMAIN corners :
        LET c == corners[i]
            before == {j \in 1 .. i - 1 : IsManual(corners[j])}
            previousEnd == IF before = {} THEN 0 ELSE corners[Max(before)].end
        IN
        /\ c.id # 0 /\ c.named /\ validateSources(c.sources)
        /\ c.mode \in {"catalog_manual", "catalog_enumerated"}
        /\ c.mode = "catalog_enumerated" => c.start = 0 /\ c.apex = 0 /\ c.end = 0
        /\ IsManual(c) =>
              /\ validateCornerRange(c, length)
              /\ \A j \in before : ~WrapsAround(corners[j])
              /\ WrapsAround(c) => i = Len(corners)
              /\ i > 1 => c.start >= previousEnd
              /\ ClearOfFirst(c, i, corners)

Abs(n) == IF n < 0 THEN -n ELSE n

pointDistance(p, q) == Abs(p.x - q.x)

validateCenterLine(line, length) ==
    \/ line = <<>>
    \/ /\ Len(line) >= 2
       /\ line[1].acc = 0
       /\ \A i \in DOMAIN line : line[i].finite /\ line[i].acc \in 0 .. length
       /\ \A i \in 2 .. Len(line) :
             line[i].acc > line[i - 1].acc /\ pointDistance(line[i - 1], line[i]) # 0

validateLayout(l) ==
    /\ l.id # 0 /\ l.named /\ l.length > 0
    /\ validateSources(l.sources)
    /\ validateSectors(l.sectors, l.length)
    /\ validateCorners(l.corners, l.length)
    /\ validateCenterLine(l.line, l.length)

\* The IDs given to rememberID, by their places: track, layout in it, corner in
\* that. It refuses one that it has seen, whatever it is the ID of.
RememberedIDs(c) ==
    LET Layouts(i) == c.tracks[i].layouts
        Corners(i, j) == Layouts(i)[j].corners
        layouts == UNION {{<<i, j, 0>> : j \in DOMAIN Layouts(i)} : i \in DOMAIN c.tracks}
        corners == UNION {{<<p[1], p[2], k>> : k \in DOMAIN Corners(p[1], p[2])} : p \in layouts}
        places == {<<i, 0, 0>> : i \in DOMAIN c.tracks} \union layouts \union corners
    IN  [p \in places |-> IF p[2] = 0 THEN c.tracks[p[1]].id
                          ELSE IF p[3] = 0 THEN Layouts(p[1])[p[2]].id
                          ELSE Corners(p[1], p[2])[p[3]].id]

ValidateCatalog(c) ==
    /\ c.version = "v1"
    /\ IsInjective(RememberedIDs(c))
    /\ \A t \in Elements(c.tracks) :
          /\ t.id # 0 /\ t.named /\ validateSources(t.sources)
          /\ \A l \in Elements(t.layouts) : validateLayout(l)

\* Faulty: the seed is accepted with any complete source.
ValidateAnySource(c) == ValidateCatalog(c)

\* What the seed must satisfy before the server or the database takes it.
ValidateSourceOfTruth(c) ==
    /\ ValidateCatalog(c)
    /\ \A t \in Elements(c.tracks) :
          /\ requireProductionSources(t.sources)
          /\ \A l \in Elements(t.layouts) :
                /\ requireProductionSources(l.sources)
                /\ \A x \in Elements(l.sectors) \union Elements(l.corners) :
                      requireProductionSources(x.sources)

-----------------------------------------------------------------------------
\* What GET /catalog lists, what a session may select, what can be detected.
hasSelectableLayoutMetadata(t, l) ==
    /\ t.id # 0 /\ t.named /\ l.id # 0 /\ l.named
    /\ t.sources # {} /\ l.sources # {}
    /\ validateSources(t.sources) /\ validateSources(l.sources)

\* The pairs of a track ID and a layout ID that are listed.
BuildCatalogTrackLayoutSummary(c) ==
    UNION {{<<t.id, l.id>> : l \in {x \in Elements(t.layouts) :
                                      /\ hasSelectableLayoutMetadata(t, x)
                                      /\ filterProductionSources(x.sources) # {}}}
           : t \in {y \in Elements(c.tracks) : filterProductionSources(y.sources) # {}}}

\* The first track with the ID decides, and in it the first layout with the ID.
FindSelectableTrackLayout(c, trackID, layoutID) ==
    LET i == SelectInSeq(c.tracks, LAMBDA t : t.id = trackID)
        t == c.tracks[i]
        j == SelectInSeq(t.layouts, LAMBDA l : l.id = layoutID)
        l == t.layouts[j]
    IN
    /\ i # 0 /\ filterProductionSources(t.sources) # {}
    /\ j # 0 /\ filterProductionSources(l.sources) # {}
    /\ validateSources(t.sources) /\ validateSources(l.sources)

-----------------------------------------------------------------------------
\* Approved geometry: 1 m, or 1 % of the larger length. In centimetres.
WithinTolerance(difference, a, b) ==
    LET larger == Max({Abs(a), Abs(b)}) IN
    IF larger <= 100 THEN difference <= 100 ELSE 100 * difference <= larger

\* The checks of an entry before its key is remembered, and those after.
HasKey(g) == g.track # 0 /\ g.layout # 0 /\ g.length > 0

HasShape(g) ==
    LET line == g.line
        n == Len(line)
    IN
    /\ n >= 2
    /\ line[1].acc = 0 /\ \A i \in 1 .. n : line[i].finite
    /\ \A i \in 2 .. n :
          LET delta == line[i].acc - line[i - 1].acc
              segment == pointDistance(line[i - 1], line[i])
          IN  delta > 0 /\ segment > 0 /\ WithinTolerance(Abs(segment - delta), delta, segment)
    /\ WithinTolerance(Abs(line[n].acc - g.length), g.length, line[n].acc)
    /\ WithinTolerance(pointDistance(line[1], line[n]), g.length, pointDistance(line[1], line[n]))

GeometryKey(g) == <<g.track, g.layout>>

\* Faulty: a repeated key is let through.
AcceptEntryAgain(result, g) ==
    IF HasKey(g) /\ HasShape(g) THEN [result EXCEPT !.kept = Append(@, g)]
    ELSE [result EXCEPT !.refused = TRUE]

\* One entry of the manifest; its key is taken even when its shape is refused.
AcceptEntry(result, g) ==
    CASE ~HasKey(g) \/ GeometryKey(g) \in result.ids -> [result EXCEPT !.refused = TRUE]
      [] HasKey(g) /\ GeometryKey(g) \notin result.ids /\ ~HasShape(g) ->
            [result EXCEPT !.refused = TRUE, !.ids = @ \union {GeometryKey(g)}]
      [] OTHER -> [result EXCEPT !.ids = @ \union {GeometryKey(g)}, !.kept = Append(@, g)]

sanitized(entries) ==
    FoldLeft(AcceptEntry, [ids |-> {}, kept |-> <<>>, refused |-> FALSE], entries)

\* PrepareApprovedGeometry(skipInvalid): the manifest to serve, or an error.
PrepareApprovedGeometry(entries, skipInvalid) ==
    LET result == sanitized(entries) IN
    [ok |-> skipInvalid \/ ~result.refused,
     entries |-> IF skipInvalid \/ ~result.refused THEN result.kept ELSE <<>>]

\* The first entry of a layout decides.
approvedGeometryFor(entries, trackID, layoutID) ==
    LET i == SelectInSeq(entries, LAMBDA g : g.track = trackID /\ g.layout = layoutID) IN
    CASE i = 0 -> [state |-> "missing"]
      [] i # 0 /\ HasKey(entries[i]) /\ HasShape(entries[i]) ->
            [state |-> "valid", geometry |-> entries[i]]
      [] OTHER -> [state |-> "invalid"]

\* A capability is its state; the reasons are left out. Lengths in centimetres.
\* IDs are unique in the catalog: there is one layout at most.
LayoutCapabilities(c, entries, trackID, layoutID) ==
    LET found == UNION {{l \in Elements(t.layouts) : t.id = trackID /\ l.id = layoutID}
                        : t \in Elements(c.tracks)}
        l == CHOOSE x \in found : TRUE
        manual == {x \in Elements(l.corners) : IsManual(x)}
        approved == approvedGeometryFor(entries, trackID, layoutID)
        g == approved.geometry
        Available(test) == IF test THEN "available" ELSE "partial"
    IN
    [detection |-> IF found = {} THEN "unavailable" ELSE "available"] @@
    IF found = {} \/ approved.state # "valid"
    THEN [capability \in {"distanceDelta", "microSectors", "cornerAnalysis", "cornerNames"} |->
            "unavailable"]
    ELSE [distanceDelta |-> IF WithinTolerance(Abs(g.length - 100 * l.length), 100 * l.length, g.length)
                            THEN "available" ELSE "unavailable",
          microSectors |-> Available(Len(g.line) >= MinMicroSectorPoints),
          cornerAnalysis |-> Available(manual # {}),
          cornerNames |-> Available(\E x \in manual : x.named)]
=============================================================================
