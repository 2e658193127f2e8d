------------------------------ MODULE Rows ------------------------------
(***************************************************************************)
(* The statements genieql generated for the tables of the daemon, beside   *)
(* the declarations they were generated from: a caller keeps a struct, an  *)
(* insert binds its fields to $1, $2, ..., the statement's RETURNING list  *)
(* is scanned back into the struct, and the row is shared with others.     *)
(*                                                                         *)
(* A value is <<who, column>>: who wrote it and where it belongs.  Fields  *)
(* carry the names of their columns.  A scanner is the sequence of fields  *)
(* it fills from the first, second, ... column; in an insert, values[i] is *)
(* the parameter of the i-th column, 0 for DEFAULT, and given[k] the field *)
(* bound to $k.                                                            *)
(***************************************************************************)
EXTENDS Naturals, Sequences, FiniteSets, Functions

CONSTANTS
    Callers,        \* the goroutines that use the table
    MaxSteps        \* bound on the statements executed

-----------------------------------------------------------------------------
\* ON CONFLICT (target) DO UPDATE: columns taken from the new row, columns computed by
\* the database, and columns taken from the new row only where there is none
Set(target, excluded, computed, fill) ==
    [update |-> TRUE, target |-> target, excluded |-> excluded,
     computed |-> computed, fill |-> fill]

\* no ON CONFLICT: the statement fails
Refuse == [Set("none", {}, {}, {}) EXCEPT !.update = FALSE]

(* The generated code, table by table *)

TorrentColumns ==
    <<"archivable", "auto_description", "bytes", "created_at", "description",
      "downloaded", "encryption_seed", "hidden_at", "id", "imported_at", "infohash",
      "initiated_at", "known_media_id", "mimetype", "next_announce_at", "paused_at",
      "peers", "private", "seeding", "tombstoned_at", "tracker", "updated_at",
      "uploaded", "verify_at">>

TorrentScanRows == TorrentColumns
TorrentScanRow == TorrentColumns
TorrentScanDynamic == TorrentColumns
TorrentAssignDynamic == TorrentColumns

TorrentInsertWithDefaults ==
    [given |-> <<"archivable", "auto_description", "bytes", "description",
                 "downloaded", "encryption_seed", "id", "infohash",
                 "known_media_id", "mimetype", "peers", "private", "seeding",
                 "tombstoned_at", "tracker", "uploaded">>,
     values |-> <<1, 2, 3, 0, 4, 5, 6, 0, 7, 0, 8, 0, 9, 10, 0, 0, 11, 12, 13, 14,
                  15, 0, 16, 0>>,
     conflict |-> Set("id", {"tracker"}, {"updated_at"}, {})]

RSSColumns ==
    <<"autoarchive", "autodownload", "contributing", "created_at", "description",
      "disabled_at", "encryption_seed", "id", "last_built_at", "next_check",
      "updated_at", "url">>

\* Mutant of RSSScanRow: two columns are scanned into each other.
RSSScanRowSwapped ==
    [RSSColumns EXCEPT ![6] = "encryption_seed", ![7] = "disabled_at"]

RSSScanRows == RSSColumns
RSSScanRow == RSSColumns
RSSScanDynamic == RSSColumns

RSSInsertWithDefaults ==
    [given |-> <<"autoarchive", "autodownload", "contributing", "description",
                 "encryption_seed", "id", "last_built_at", "url">>,
     values |-> <<1, 2, 3, 0, 4, 0, 5, 6, 7, 0, 0, 8>>,
     conflict |-> Set("id", {"autodownload", "autoarchive", "url",
                      "description"}, {"updated_at"}, {})]

RSSInsertDefaultFeed ==
    [given |-> <<"autoarchive", "autodownload", "contributing", "description",
                 "encryption_seed", "id", "last_built_at", "url">>,
     values |-> <<1, 2, 3, 0, 4, 0, 5, 6, 7, 0, 0, 8>>,
     conflict |-> Set("id", {}, {"updated_at"}, {})]

UnknownHashColumns ==
    <<"attempts", "created_at", "id", "infohash", "next_check", "updated_at">>

UnknownHashScanRows == UnknownHashColumns
UnknownHashScanRow == UnknownHashColumns
UnknownHashScanDynamic == UnknownHashColumns

UnknownHashInsertWithDefaults ==
    [given |-> <<"attempts", "id", "infohash", "next_check">>,
     values |-> <<1, 0, 2, 3, 4, 0>>,
     conflict |-> Set("id", {}, {"updated_at"}, {})]

UnknownHashCooldown ==
    [given |-> <<"attempts", "id", "infohash", "next_check">>,
     values |-> <<1, 0, 2, 3, 4, 0>>,
     conflict |-> Set("id", {}, {"updated_at", "attempts", "next_check"}, {})]

PeerColumns ==
    <<"bep51", "bep51_available", "bep51_ttl", "created_at", "id", "ip",
      "network", "next_check", "peer", "port", "updated_at">>

PeerScanRows == PeerColumns
PeerScanRow == PeerColumns
PeerScanDynamic == PeerColumns

PeerMarkNextCheck ==
    [given |-> <<"bep51", "bep51_available", "bep51_ttl", "id", "ip", "network",
                 "peer", "port">>,
     values |-> <<1, 2, 3, 0, 4, 5, 6, 0, 7, 8, 0>>,
     conflict |-> Set("id", {}, {"updated_at", "next_check"}, {})]

PeerInsertWithDefaults ==
    [given |-> <<"bep51", "bep51_available", "bep51_ttl", "id", "ip", "network",
                 "peer", "port">>,
     values |-> <<1, 2, 3, 0, 4, 5, 6, 0, 7, 8, 0>>,
     conflict |-> Set("id", {"ip", "port", "bep51_available"}, {"updated_at"},
                      {})]

LibraryColumns ==
    <<"archive_id", "auto_description", "bytes", "created_at", "description",
      "disk_offset", "disk_usage", "encryption_seed", "hidden_at", "id", "image",
      "known_media_id", "mimetype", "quota_usage", "tombstoned_at", "torrent_id",
      "updated_at">>

LibraryScanRows == LibraryColumns
LibraryScanRow == LibraryColumns
LibraryScanDynamic == LibraryColumns
LibraryAssignDynamic == LibraryColumns

\* Mutant of LibraryInsertWithDefaults: the conflict clause writes a column too many.
LibraryInsertOverwrites ==
    [given |-> <<"archive_id", "auto_description", "bytes", "description",
                 "disk_offset", "disk_usage", "encryption_seed", "id", "image",
                 "known_media_id", "mimetype", "quota_usage", "torrent_id">>,
     values |-> <<1, 2, 3, 0, 4, 5, 6, 7, 0, 8, 9, 10, 11, 12, 0, 13, 0>>,
     conflict |-> Set("id", {"archive_id"}, {"updated_at"}, {})]

LibraryInsertWithDefaults ==
    [given |-> <<"archive_id", "auto_description", "bytes", "description",
                 "disk_offset", "disk_usage", "encryption_seed", "id", "image",
                 "known_media_id", "mimetype", "quota_usage", "torrent_id">>,
     values |-> <<1, 2, 3, 0, 4, 5, 6, 7, 0, 8, 9, 10, 11, 12, 0, 13, 0>>,
     conflict |-> Set("id", {}, {"updated_at"}, {"archive_id"})]

KnownColumns ==
    <<"adult", "auto_description", "backdrop_path", "created_at", "duplicates",
      "id", "md5", "md5_lower", "original_language", "original_title", "overview",
      "popularity", "poster_path", "released", "source", "title", "uid">>

KnownScanRows == KnownColumns
KnownScanRow == KnownColumns
KnownScanDynamic == KnownColumns
KnownAssignDynamic == KnownColumns

KnownInsertWithDefaults ==
    [given |-> <<"adult", "auto_description", "backdrop_path", "duplicates", "id",
                 "md5", "md5_lower", "original_language", "original_title",
                 "overview", "popularity", "poster_path", "released", "source",
                 "title", "uid">>,
     values |-> <<1, 2, 3, 0, 4, 5, 6, 7, 8, 9, 10, 11, 12, 13, 14, 15, 16>>,
     conflict |-> Set("uid", {"title", "original_language", "original_title",
                      "popularity", "overview", "source", "poster_path",
                      "backdrop_path"}, {"duplicates"}, {})]

DaemonColumns ==
    <<"created_at", "description", "hostname", "id", "updated_at">>

DaemonScanRows == DaemonColumns
DaemonScanRow == DaemonColumns
DaemonScanDynamic == DaemonColumns

DaemonInsertWithDefaults ==
    [given |-> <<"description", "hostname", "id">>,
     values |-> <<0, 1, 2, 3, 0>>,
     conflict |-> Set("id", {}, {"updated_at"}, {})]

ConsumedTokenColumns ==
    <<"created_at", "id", "token", "tombstoned_at">>

ConsumedTokenScanRows == ConsumedTokenColumns
ConsumedTokenScanRow == ConsumedTokenColumns
ConsumedTokenScanDynamic == ConsumedTokenColumns

ConsumedTokenInsertWithDefaults ==
    [given |-> <<"id", "token", "tombstoned_at">>,
     values |-> <<0, 1, 2, 3>>,
     conflict |-> Refuse]

AuthzColumns ==
    <<"created_at", "id", "profile_id", "updated_at", "usermanagement">>

AuthzScanRows == AuthzColumns
AuthzScanRow == AuthzColumns
AuthzScanDynamic == AuthzColumns

AuthzInsertWithDefaults ==
    [given |-> <<"profile_id", "updated_at", "usermanagement">>,
     values |-> <<0, 0, 1, 2, 3>>,
     conflict |-> Refuse]

AuthzInsertWithIDDefaults ==
    [given |-> <<"id", "profile_id", "updated_at", "usermanagement">>,
     values |-> <<0, 1, 2, 3, 4>>,
     conflict |-> Set("id", {}, {"updated_at"}, {})]

AuthzUpsertWithDefaults ==
    [given |-> <<"profile_id", "usermanagement">>,
     values |-> <<0, 0, 1, 0, 2>>,
     conflict |-> Set("profile_id", {"usermanagement"}, {"updated_at"}, {})]

ProfileColumns ==
    <<"created_at", "description", "disabled_at", "disabled_manually_at",
      "disabled_pending_approval_at", "id", "session_watermark", "updated_at">>

ProfileScanRows == ProfileColumns
ProfileScanRow == ProfileColumns
ProfileScanDynamic == ProfileColumns

ProfileInsertWithDefaults ==
    [given |-> <<"description">>,
     values |-> <<0, 1, 0, 0, 0, 0, 0, 0>>,
     conflict |-> Set("id", {}, {"updated_at"}, {})]

ProfileInsertWithID ==
    [given |-> <<"description", "id">>,
     values |-> <<0, 1, 0, 0, 0, 2, 0, 0>>,
     conflict |-> Set("id", {}, {"updated_at"}, {})]

IdentityColumns ==
    <<"created_at", "disabled_at", "id", "profile_id", "public_key",
      "updated_at">>

IdentityScanRows == IdentityColumns
IdentityScanRow == IdentityColumns
IdentityScanDynamic == IdentityColumns

IdentityInsertWithDefaults ==
    [given |-> <<"disabled_at", "id", "profile_id", "public_key">>,
     values |-> <<0, 1, 2, 3, 4, 0>>,
     conflict |-> Set("id", {"profile_id"}, {"updated_at"}, {})]

IdentityInsertZeroWithDefaults ==
    [given |-> <<"disabled_at", "id", "profile_id", "public_key">>,
     values |-> <<0, 1, 2, 3, 4, 0>>,
     conflict |-> Set("id", {}, {"updated_at"}, {})]

-----------------------------------------------------------------------------
(* The declarations: which columns an insert leaves to the table, and what  *)
(* its conflict clause does                                                  *)

TorrentDeclared ==
    [TorrentInsertWithDefaults |->
       [default |-> {"created_at", "updated_at", "hidden_at", "initiated_at", "paused_at",
                     "next_announce_at", "verify_at", "imported_at"},
        conflict |-> Set("id", {"tracker"}, {"updated_at"}, {})]]

PeerDeclared ==
    [PeerInsertWithDefaults |->
       [default |-> {"created_at", "updated_at", "next_check"},
        conflict |-> Set("id", {"ip", "port", "bep51_available"}, {"updated_at"}, {})],
     PeerMarkNextCheck |->
       [default |-> {"created_at", "updated_at", "next_check"},
        conflict |-> Set("id", {}, {"updated_at", "next_check"}, {})]]

UnknownHashDeclared ==
    [UnknownHashInsertWithDefaults |->
       [default |-> {"created_at", "updated_at"}, conflict |-> Set("id", {}, {"updated_at"}, {})],
     UnknownHashCooldown |->
       [default |-> {"created_at", "updated_at"},
        conflict |-> Set("id", {}, {"updated_at", "attempts", "next_check"}, {})]]

\* ttl_minimum is a column the structure does not have
RSSDeclared ==
    LET default == {"created_at", "updated_at", "next_check", "disabled_at", "ttl_minimum"}
    IN  [RSSInsertWithDefaults |->
           [default |-> default,
            conflict |-> Set("id", {"autodownload", "autoarchive", "url", "description"},
                             {"updated_at"}, {})],
         RSSInsertDefaultFeed |->
           [default |-> default, conflict |-> Set("id", {}, {"updated_at"}, {})]]

LibraryDeclared ==
    [LibraryInsertWithDefaults |->
       [default |-> {"created_at", "updated_at", "hidden_at", "tombstoned_at"},
        conflict |-> Set("id", {}, {"updated_at"}, {"archive_id"})]]

KnownDeclared ==
    [KnownInsertWithDefaults |->
       [default |-> {"created_at"},
        conflict |-> Set("uid", {"title", "original_language", "original_title", "popularity",
                          "overview", "source", "poster_path", "backdrop_path"},
                         {"duplicates"}, {})]]

ProfileDeclared ==
    LET default == {"session_watermark", "created_at", "updated_at", "disabled_at",
                    "disabled_manually_at", "disabled_pending_approval_at"}
        conflict == Set("id", {}, {"updated_at"}, {})
    IN  [ProfileInsertWithDefaults |->
           [default |-> default \cup {"id"}, conflict |-> conflict],
         ProfileInsertWithID |-> [default |-> default, conflict |-> conflict]]

DaemonDeclared ==
    [DaemonInsertWithDefaults |->
       [default |-> {"created_at", "updated_at"}, conflict |-> Set("id", {}, {"updated_at"}, {})]]

ConsumedTokenDeclared ==
    [ConsumedTokenInsertWithDefaults |-> [default |-> {"created_at"}, conflict |-> Refuse]]

AuthzDeclared ==
    [AuthzInsertWithDefaults |->
       [default |-> {"id", "created_at"}, conflict |-> Refuse],
     AuthzInsertWithIDDefaults |->
       [default |-> {"created_at"}, conflict |-> Set("id", {}, {"updated_at"}, {})],
     AuthzUpsertWithDefaults |->
       [default |-> {"id", "created_at", "updated_at"},
        conflict |-> Set("profile_id", {"usermanagement"}, {"updated_at"}, {})]]

IdentityDeclared ==
    [IdentityInsertWithDefaults |->
       [default |-> {"created_at", "updated_at"},
        conflict |-> Set("id", {"profile_id"}, {"updated_at"}, {})],
     IdentityInsertZeroWithDefaults |->
       [default |-> {"created_at", "updated_at"}, conflict |-> Set("id", {}, {"updated_at"}, {})]]

\* the columns each declared UPDATE names
TorrentMayUpdate ==
    [MetadataTombstoneByID |-> {"tombstoned_at", "initiated_at", "seeding"},
     MetadataPausedByID |-> {"paused_at", "initiated_at"},
     MetadataDownloadByID |-> {"paused_at", "initiated_at"},
     MetadataAutoDownloadByID |-> {"initiated_at"},
     MetadataProgressByID |-> {"updated_at", "downloaded", "peers", "seeding"},
     MetadataImportedByID |-> {"updated_at", "imported_at"},
     MetadataVerifyByID |-> {"updated_at", "downloaded", "peers", "seeding", "verify_at"},
     MetadataCompleteByID |-> {"updated_at", "verify_at", "downloaded", "uploaded", "peers",
                               "seeding"},
     MetadataUploadedByID |-> {"updated_at", "uploaded"},
     MetadataAnnounced |-> {"updated_at", "next_announce_at"},
     MetadataDisableAnnounced |-> {"updated_at", "next_announce_at"},
     MetadataAssignKnownMediaID |-> {"updated_at", "known_media_id"}]

LibraryMayUpdate ==
    [MetadataArchivedByID |-> {"archive_id", "quota_usage"},
     MetadataHideByID |-> {"hidden_at", "initiated_at"},
     MetadataUpdateAutodescriptionByID |-> {"updated_at", "auto_description"},
     MetadataUpdateDescriptionByID |-> {"updated_at", "description"},
     MetadataTombstoneByID |-> {"tombstoned_at"},
     MetadataTombstoneByTorrentID |-> {"tombstoned_at"},
     MetadataAssociateTorrent |-> {"torrent_id"},
     MetadataUpdate |-> {"description", "known_media_id", "archive_id"},
     MetadataTransferKnownMediaIDFromTorrent |-> {"updated_at", "known_media_id"},
     MetadataSyncKnownMediaIDFromTorrent |-> {"updated_at", "known_media_id"}]

RSSMayUpdate == [RSSCooldownByID |-> {"updated_at", "next_check", "last_built_at"}]
DaemonMayUpdate == [DaemonTouch |-> {"updated_at"}]

(* The columns each generated UPDATE sets *)

TorrentUpdates ==
    [MetadataDisableAnnounced |-> {"updated_at", "next_announce_at"},
     MetadataProgressByID |-> {"updated_at", "downloaded", "peers", "seeding"},
     MetadataImportedByID |-> {"updated_at", "imported_at"},
     MetadataVerifyByID |-> {"updated_at", "downloaded", "peers", "seeding", "verify_at"},
     MetadataCompleteByID |-> {"updated_at", "verify_at", "downloaded", "uploaded", "peers",
                               "seeding"},
     MetadataUploadedByID |-> {"updated_at", "uploaded"},
     MetadataAnnounced |-> {"updated_at", "next_announce_at"},
     MetadataDownloadByID |-> {"paused_at", "initiated_at"},
     MetadataAssignKnownMediaID |-> {"updated_at", "known_media_id"},
     MetadataPausedByID |-> {"paused_at", "initiated_at"},
     MetadataAutoDownloadByID |-> {"initiated_at"},
     MetadataTombstoneByID |-> {"tombstoned_at", "initiated_at", "seeding"}]

\* MetadataHideByID names a column the table does not have, and fails
LibraryUpdates ==
    [MetadataUpdateAutodescriptionByID |-> {"updated_at", "auto_description"},
     MetadataTransferKnownMediaIDFromTorrent |-> {"updated_at", "known_media_id"},
     MetadataUpdateDescriptionByID |-> {"updated_at", "description"},
     MetadataTombstoneByID |-> {"tombstoned_at"},
     MetadataTombstoneByTorrentID |-> {"tombstoned_at"},
     MetadataSyncKnownMediaIDFromTorrent |-> {"updated_at", "known_media_id"},
     MetadataAssociateTorrent |-> {"torrent_id"},
     MetadataUpdate |-> {"description", "known_media_id", "archive_id"},
     MetadataHideByID |-> {"hidden_at", "initiated_at"},
     MetadataArchivedByID |-> {"archive_id", "quota_usage"}]

RSSUpdates == [RSSCooldownByID |-> {"updated_at", "next_check", "last_built_at"}]
DaemonUpdates == [DaemonTouch |-> {"updated_at"}]
NoUpdates == [none \in {} |-> {}]

Table ==
    [torrents_metadata |->
       [columns |-> TorrentColumns, rows |-> TorrentScanRows, row |-> TorrentScanRow,
        dynamic |-> TorrentScanDynamic, assigns |-> TorrentAssignDynamic,
        declared |-> TorrentDeclared,
        inserts |-> [TorrentInsertWithDefaults |-> TorrentInsertWithDefaults],
        updates |-> TorrentUpdates, may |-> TorrentMayUpdate],
     torrents_feed_rss |->
       [columns |-> RSSColumns, rows |-> RSSScanRows, row |-> RSSScanRow,
        dynamic |-> RSSScanDynamic, assigns |-> RSSScanDynamic,
        declared |-> RSSDeclared,
        inserts |-> [RSSInsertWithDefaults |-> RSSInsertWithDefaults,
                     RSSInsertDefaultFeed |-> RSSInsertDefaultFeed],
        updates |-> RSSUpdates, may |-> RSSMayUpdate],
     torrents_unknown_infohashes |->
       [columns |-> UnknownHashColumns, rows |-> UnknownHashScanRows,
        row |-> UnknownHashScanRow, dynamic |-> UnknownHashScanDynamic,
        assigns |-> UnknownHashScanDynamic,
        declared |-> UnknownHashDeclared,
        inserts |-> [UnknownHashInsertWithDefaults |-> UnknownHashInsertWithDefaults,
                     UnknownHashCooldown |-> UnknownHashCooldown],
        updates |-> NoUpdates, may |-> NoUpdates],
     torrents_peers |->
       [columns |-> PeerColumns, rows |-> PeerScanRows, row |-> PeerScanRow,
        dynamic |-> PeerScanDynamic, assigns |-> PeerScanDynamic,
        declared |-> PeerDeclared,
        inserts |-> [PeerInsertWithDefaults |-> PeerInsertWithDefaults,
                     PeerMarkNextCheck |-> PeerMarkNextCheck],
        updates |-> NoUpdates, may |-> NoUpdates],
     library_metadata |->
       [columns |-> LibraryColumns, rows |-> LibraryScanRows, row |-> LibraryScanRow,
        dynamic |-> LibraryScanDynamic, assigns |-> LibraryAssignDynamic,
        declared |-> LibraryDeclared,
        inserts |-> [LibraryInsertWithDefaults |-> LibraryInsertWithDefaults],
        updates |-> LibraryUpdates, may |-> LibraryMayUpdate],
     library_known_media |->
       [columns |-> KnownColumns, rows |-> KnownScanRows, row |-> KnownScanRow,
        dynamic |-> KnownScanDynamic, assigns |-> KnownAssignDynamic,
        declared |-> KnownDeclared,
        inserts |-> [KnownInsertWithDefaults |-> KnownInsertWithDefaults],
        updates |-> NoUpdates, may |-> NoUpdates],
     meta_daemons |->
       [columns |-> DaemonColumns, rows |-> DaemonScanRows, row |-> DaemonScanRow,
        dynamic |-> DaemonScanDynamic, assigns |-> DaemonScanDynamic,
        declared |-> DaemonDeclared,
        inserts |-> [DaemonInsertWithDefaults |-> DaemonInsertWithDefaults],
        updates |-> DaemonUpdates, may |-> DaemonMayUpdate],
     meta_consumed_tokens |->
       [columns |-> ConsumedTokenColumns, rows |-> ConsumedTokenScanRows,
        row |-> ConsumedTokenScanRow, dynamic |-> ConsumedTokenScanDynamic,
        assigns |-> ConsumedTokenScanDynamic,
        declared |-> ConsumedTokenDeclared,
        inserts |-> [ConsumedTokenInsertWithDefaults |-> ConsumedTokenInsertWithDefaults],
        updates |-> NoUpdates, may |-> NoUpdates],
     authz_meta |->
       [columns |-> AuthzColumns, rows |-> AuthzScanRows, row |-> AuthzScanRow,
        dynamic |-> AuthzScanDynamic, assigns |-> AuthzScanDynamic,
        declared |-> AuthzDeclared,
        inserts |-> [AuthzInsertWithDefaults |-> AuthzInsertWithDefaults,
                     AuthzInsertWithIDDefaults |-> AuthzInsertWithIDDefaults,
                     AuthzUpsertWithDefaults |-> AuthzUpsertWithDefaults],
        updates |-> NoUpdates, may |-> NoUpdates],
     meta_profiles |->
       [columns |-> ProfileColumns, rows |-> ProfileScanRows, row |-> ProfileScanRow,
        dynamic |-> ProfileScanDynamic, assigns |-> ProfileScanDynamic,
        declared |-> ProfileDeclared,
        inserts |-> [ProfileInsertWithDefaults |-> ProfileInsertWithDefaults,
                     ProfileInsertWithID |-> ProfileInsertWithID],
        updates |-> NoUpdates, may |-> NoUpdates],
     meta_sso_identity_ssh |->
       [columns |-> IdentityColumns, rows |-> IdentityScanRows, row |-> IdentityScanRow,
        dynamic |-> IdentityScanDynamic, assigns |-> IdentityScanDynamic,
        declared |-> IdentityDeclared,
        inserts |-> [IdentityInsertWithDefaults |-> IdentityInsertWithDefaults,
                     IdentityInsertZeroWithDefaults |-> IdentityInsertZeroWithDefaults],
        updates |-> NoUpdates, may |-> NoUpdates]]

-----------------------------------------------------------------------------
VARIABLES
    table,      \* the table at work
    row,        \* its row with the callers' key, or <<>> when there is none
    structs,    \* structs[c]: the struct of caller c
    last,       \* the statement that returned last: caller, name and what it returned
    steps       \* how many statements so far

rowsvars == <<table, row, structs, last, steps>>

NoRow == <<>>
T == Table[table]
Columns == Range(T.columns)
Own(c) == [f \in Columns |-> <<c, f>>]
Zero == [f \in Columns |-> <<"zero", f>>]
Nothing == [by |-> "none", name |-> "none", cols |-> {}, returned |-> NoRow]

RowsInit ==
    /\ table \in DOMAIN Table
    /\ row = NoRow
    /\ structs = [c \in Callers |-> Own(c)]
    /\ last = Nothing
    /\ steps = 0

\* Scan: the i-th column into the i-th field
Scan(fields, r, v) ==
    [f \in Columns |->
       IF f \in Range(fields)
       THEN r[T.columns[CHOOSE i \in DOMAIN fields : fields[i] = f]] ELSE v[f]]

\* the dynamic scanner goes by the names of the columns it is given: each name has a
\* variable, and each variable a field
ScanNamed(names, fields, cols, r, v) ==
    [f \in Columns |->
       IF \E i \in DOMAIN fields : fields[i] = f /\ names[i] \in cols
       THEN r[names[CHOOSE i \in DOMAIN fields : fields[i] = f]] ELSE v[f]]

Statement == steps < MaxSteps /\ steps' = steps + 1 /\ UNCHANGED table

Returns(c, name, r, v) ==
    /\ structs' = [structs EXCEPT ![c] = v]
    /\ last' = [by |-> c, name |-> name, cols |-> Columns, returned |-> r]

\* an error of the statement: the struct keeps what it has
Error(name) ==
    /\ last' = [Nothing EXCEPT !.name = name]
    /\ UNCHANGED <<row, structs>>

\* the new row of an insert
Values(s, v) ==
    LET bound(i) == IF s.values[i] = 0 THEN <<"default", T.columns[i]>>
                    ELSE v[s.given[s.values[i]]]
    IN  [f \in Columns |-> bound(CHOOSE i \in DOMAIN T.columns : T.columns[i] = f)]

\* archive ids of all zeros or all ones are none
Empty(x) == x[1] \in {"zero", "default"}

OnConflict(k, r, new) ==
    [f \in Columns |->
       IF f \in k.excluded \/ (f \in k.fill /\ Empty(r[f])) THEN new[f]
       ELSE IF f \in k.computed THEN <<"set", f>> ELSE r[f]]

\* a key left to the table is a new one, so the row is another
Another(k, default) == k.update /\ row # NoRow /\ k.target \in default

Insert(c, n) ==
    LET s == T.inserts[n]
        new == Values(s, structs[c])
        default == {T.columns[i] : i \in {j \in DOMAIN s.values : s.values[j] = 0}}
        another == Another(s.conflict, default)
        r == IF row = NoRow \/ another THEN new ELSE OnConflict(s.conflict, row, new)
    IN  /\ Statement
        /\ IF row # NoRow /\ ~s.conflict.update
           THEN Error(n)
           ELSE /\ row' = IF another THEN row ELSE r
                /\ Returns(c, n, r, Scan(T.row, r, structs[c]))

\* UPDATE ... RETURNING: fails without a row, or for a column that is not there
Update(c, n) ==
    LET r == [f \in Columns |-> IF f \in T.updates[n] THEN <<"set", f>> ELSE row[f]]
    IN  /\ Statement
        /\ IF row = NoRow \/ ~(T.updates[n] \subseteq Columns)
           THEN Error(n)
           ELSE row' = r /\ Returns(c, n, r, Scan(T.row, r, structs[c]))

Delete(c) ==
    /\ Statement
    /\ IF row = NoRow
       THEN Error("delete")
       ELSE row' = NoRow /\ Returns(c, "delete", row, Scan(T.row, row, structs[c]))

Find(c) ==
    /\ Statement
    /\ IF row = NoRow
       THEN Error("find")
       ELSE Returns(c, "find", row, Scan(T.row, row, structs[c])) /\ UNCHANGED row

\* sqlx.Scan: each row of a result into a struct of its own
IterRow(c) ==
    /\ Statement
    /\ row # NoRow
    /\ Returns(c, "iter", row, Scan(T.rows, row, Zero))
    /\ UNCHANGED row

\* the dynamic scanner over a query of some columns
Select(c, cols) ==
    /\ Statement
    /\ row # NoRow
    /\ structs' = [structs EXCEPT ![c] = ScanNamed(T.dynamic, T.assigns, cols, row, @)]
    /\ last' = [by |-> c, name |-> "select", cols |-> cols, returned |-> row]
    /\ UNCHANGED row

\* the caller goes on with values of its own
Fill(c) ==
    /\ structs[c] # Own(c)
    /\ structs' = [structs EXCEPT ![c] = Own(c)]
    /\ last' = Nothing
    /\ UNCHANGED <<table, row, steps>>

RowsNext ==
    \E c \in Callers :
        \/ \E n \in DOMAIN T.inserts : Insert(c, n)
        \/ \E n \in DOMAIN T.updates : Update(c, n)
        \/ \E f \in Columns : Select(c, {f})
        \/ Select(c, Columns)
        \/ Delete(c) \/ Find(c) \/ IterRow(c) \/ Fill(c)

RowsSpec == RowsInit /\ [][RowsNext]_rowsvars

-----------------------------------------------------------------------------
(* Properties *)

\* What a statement returned is what its caller's struct holds: no column is
\* scanned into another field, skipped, or left from an earlier row.
ReadBack ==
    last.by # "none" => \A f \in last.cols : structs[last.by][f] = last.returned[f]

\* the row an insert should leave, by its declaration
DeclaredRow(d, r, v) ==
    LET new == [f \in Columns |-> IF f \in d.default THEN <<"default", f>> ELSE v[f]]
    IN  IF r = NoRow THEN new
        ELSE IF Another(d.conflict, d.default) THEN r ELSE OnConflict(d.conflict, r, new)

\* Every generated insert does to the row what its declaration says, for a new
\* row and for one that others have written since: it binds each field to its
\* own column, and of an existing row changes only the declared columns; and every
\* generated update changes no column but the ones its declaration names.
AsDeclared ==
    steps' # steps =>
       /\ \A n \in DOMAIN T.declared \cap {last'.name} :
            LET d == T.declared[n]
            IN  IF last'.by \in Callers THEN row' = DeclaredRow(d, row, structs[last'.by])
                ELSE row' = row /\ ~d.conflict.update
       /\ \A n \in DOMAIN T.may \cap {last'.name}, f \in Columns :
            row' # row /\ f \notin T.may[n] => row'[f] = row[f]

\* An insert made from a struct that was read before an UPDATE, or never read, does
\* not undo the update: an archive id, a tombstone, a pause or a known-media id that
\* was set stays set whoever inserts the row again.
UpdatesSurviveInserts ==
    \A f \in Columns :
         row # NoRow /\ row' # NoRow /\ last'.name \in DOMAIN T.inserts
           /\ row[f] = <<"set", f>> => row'[f] = row[f]

\* Every statement does what it was generated to do, and no stale insert undoes an
\* update.
StatementsAreDeclared == [][AsDeclared /\ UpdatesSurviveInserts]_rowsvars
=============================================================================
