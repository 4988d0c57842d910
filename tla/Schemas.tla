------------------------------ MODULE Schemas -------------------------------
(***************************************************************************)
(* Column types and the values that go with them. Every source names its   *)
(* types in the canonical set of schema.Column; the values of a column are *)
(* what its driver returns, told apart by their Go type, which is all that *)
(* the code that encodes them looks at.                                    *)
(***************************************************************************)
EXTENDS Integers

CanonicalTypes ==
  {"int64", "float64", "bool", "timestamp", "string", "map", "array", "blob", "null", "other"}

\* Go types; "nan" is the float64 that JSON has no text for.
Kinds ==
  {"int64", "int32", "int16", "float64", "nan", "float32", "bool", "time", "datetime", "string",
   "map", "array", "bytes", "numeric", "id", "nil"}

-----------------------------------------------------------------------------
(* The sources: a native type's canonical one, and the kind of its values. *)

Col(type, kind) == [type |-> type, kind |-> kind]

\* mapPostgresType, for one native type of each kind of value that pgx returns.
PostgresColumns ==
  {Col("int64", "int64"), Col("int64", "int32"), Col("int64", "int16"),
   Col("float64", "float64"), Col("float64", "nan"),   \* double precision
   Col("float64", "float32"), Col("float64", "numeric"),
   Col("bool", "bool"), Col("timestamp", "time"), Col("string", "string"),
   Col("string", "id"),                                \* uuid
   Col("map", "map"), Col("blob", "bytes"), Col("array", "array")}

\* inferType.
InferType ==
  [k \in Kinds |->
     CASE k \in {"int32", "int64"} -> "int64"
       [] k \in {"float64", "nan", "numeric"} -> "float64"
       [] k = "bool" -> "bool"
       [] k = "datetime" -> "timestamp"
       [] k \in {"string", "id"} -> "string"
       [] k = "map" -> "map"
       [] k = "array" -> "array"
       [] k = "bytes" -> "blob"
       [] k = "nil" -> "null"
       [] OTHER -> "other"]

\* A collection has no schema: the type is that of the first document that has the
\* field, whatever the values of the others.
MongoKinds == {"int32", "int64", "float64", "string", "datetime", "id", "map", "nil"}
MongoColumns == {Col(InferType[first], kind) : first \in MongoKinds, kind \in MongoKinds}

\* mapCassandraType. ReadPartition turns UUIDs into strings.
CassandraColumns ==
  {Col("int64", "int64"), Col("int64", "int16"),       \* bigint, int; smallint
   Col("float64", "float64"), Col("float64", "float32"), Col("float64", "numeric"),
   Col("bool", "bool"), Col("timestamp", "time"), Col("string", "string"),
   Col("blob", "bytes"), Col("array", "array"), Col("map", "map")}

\* What an Iceberg data file holds.
IcebergTypes == {"boolean", "int", "long", "float", "double", "date", "timestamp", "string", "binary", "struct", "list", "decimal"}

mapIcebergType ==
  [t \in IcebergTypes |->
     CASE t = "boolean" -> "bool"
       [] t \in {"int", "long"} -> "int64"
       [] t \in {"float", "double", "decimal"} -> "float64"
       [] t \in {"date", "timestamp"} -> "timestamp"
       [] t = "string" -> "string"
       [] t = "binary" -> "blob"
       [] t = "struct" -> "map"
       [] t = "list" -> "array"]

\* The Arrow types that the reader does not know it prints.
getVal ==
  [t \in IcebergTypes |->
     CASE t = "boolean" -> "bool"
       [] t = "long" -> "int64"
       [] t = "double" -> "float64"
       [] t = "timestamp" -> "time"
       [] OTHER -> "string"]

IcebergColumns == {Col(mapIcebergType[t], getVal[t]) : t \in IcebergTypes}

Columns(source) ==
  CASE source = "postgres" -> PostgresColumns
    [] source = "mongo" -> MongoColumns
    [] source = "cassandra" -> CassandraColumns
    [] source = "iceberg" -> IcebergColumns

\* What the schema marks as primary key: no column, one, or two; in a "shared" key of two
\* the rows have the same value in one column.
KeyShapes == {"none", "single", "pair", "shared"}
PostgresKeys == KeyShapes
MongoKeys == {"single"} \* _id
CassandraKeys == {"single", "pair", "shared"} \* partition key and clustering columns
IcebergKeys == {"none"} \* an Iceberg schema marks none

KeysOf(source) ==
  CASE source = "postgres" -> PostgresKeys
    [] source = "mongo" -> MongoKeys
    [] source = "cassandra" -> CassandraKeys
    [] source = "iceberg" -> IcebergKeys

-----------------------------------------------------------------------------
(* The two encoders of Arrow columns. A column whose type neither knows is *)
(* one of strings, and a value of any kind can be printed.                 *)

ArrowTypes == {"int64", "float64", "bool", "timestamp"}

\* iceberg.appendValue.
IcebergAppends(type, kind) ==
  \/ kind = "nil" \/ type \notin ArrowTypes
  \/ type = "int64" /\ kind = "int64"
  \/ type = "float64" /\ kind \in {"float64", "nan"}
  \/ type = "bool" /\ kind = "bool"
  \/ type = "timestamp" /\ kind = "time"

\* backup.appendValue.
ParquetTakes(type, kind) ==
  \/ kind = "nil" \/ type \notin ArrowTypes
  \/ type = "int64" /\ kind \in {"int64", "int32", "float64", "nan"}
  \/ type = "float64" /\ kind \in {"float64", "nan", "float32", "int64"}
  \/ type = "bool" /\ kind = "bool"
  \/ type = "timestamp" /\ kind \in {"time", "int64"}

\* What getVal makes of a value that ParquetTakes took.
ParquetReads(type, kind) ==
  IF kind = "nil" \/ (type = "float64" /\ kind = "nan") THEN kind
  ELSE IF type = "timestamp" THEN "time"
  ELSE IF type \in ArrowTypes THEN type ELSE "string"

\* encoding/json has no text for a NaN.
IsJSON(kind) == kind # "nan"
=============================================================================
