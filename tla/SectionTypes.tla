---------------------------- MODULE SectionTypes ----------------------------
(***************************************************************************)
(* Block type schemas and section content (internal/models/sectiontypes),  *)
(* and what the generator looks up when it renders a block.                *)
(*                                                                         *)
(* A schema is a function from keys to fields: representing it so drops    *)
(* the order of its fields and rules out duplicate keys.  A field has a    *)
(* type and, for a list, the schema of its items.  The types whose value   *)
(* is stored as it came and names no media (heading, text, textarea, url,  *)
(* select, bool) are one, "text"; so is button, as nothing here looks at   *)
(* its text and link.  An object is a function from keys to values; a      *)
(* value is a string or a list of objects; a string may be a media id.     *)
(***************************************************************************)
EXTENDS Naturals, Sequences

CONSTANTS
  Keys,     \* keys of fields
  Media,    \* strings that are ids of media
  Words,    \* strings that are not
  Junk      \* JSON that is not an object

Strings == Media \cup Words
NoFields == <<>>

PlainField == [type : {"text", "image", "contact_info"}, fields : {NoFields}]
IsList(field) == field.type = "list"

\* Variant: the fields of list items are not looked at.
ValidateSchemaNested(schema) ==
  schema # NoFields /\ \A k \in DOMAIN schema :
    schema[k] \in PlainField \/ (IsList(schema[k]) /\ schema[k].fields # NoFields)

\* ValidateSchema: at least one field, lists have item fields and do not nest.
ValidateSchema(schema) ==
  /\ schema # NoFields
  /\ \A k \in DOMAIN schema :
       \/ schema[k] \in PlainField
       \/ /\ IsList(schema[k])
          /\ schema[k].fields # NoFields
          /\ \A sub \in DOMAIN schema[k].fields :
               schema[k].fields[sub] \in PlainField

\* A list item that is not an object counts as an empty one.
Object(v) == IF v = Junk THEN NoFields ELSE v
Items(v) == IF v \in Strings THEN <<>> ELSE v

Stored(fields, data) ==
  {k \in DOMAIN fields \cap DOMAIN data : fields[k].type # "contact_info"}

NormalizeItem(fields, data) == [k \in Stored(fields, data) |-> data[k]]

\* Variant: the items of a list are lost on the way.
NormalizeContentFlat(schema, data) ==
  [k \in Stored(schema, data) |-> IF IsList(schema[k]) THEN <<>> ELSE data[k]]

\* NormalizeContent, of an object: the keys of the schema, in list items too.
NormalizeContent(schema, data) ==
  [k \in Stored(schema, data) |->
     IF IsList(schema[k])
     THEN [i \in DOMAIN Items(data[k]) |->
             NormalizeItem(schema[k].fields, Object(Items(data[k])[i]))]
     ELSE data[k]]

\* A value of JSON is of one kind: what is left of an object is one, and so are
\* the items of what is left of a list, which is not a string.
OneKind(schema, data) ==
  LET left == NormalizeContent(schema, data)
  IN  /\ left # Junk
      /\ \A k \in Stored(schema, data) : IsList(schema[k]) =>
           left[k] \notin Strings /\ \A i \in DOMAIN left[k] : left[k][i] # Junk

\* The strings in the image fields of an object, list items left aside.
ImagesOf(fields, data) ==
  {data[k] : k \in {k \in DOMAIN fields \cap DOMAIN data :
                      fields[k].type = "image" /\ data[k] \in Strings}}

\* Variant: images in the items of a list are forgotten.
CollectMediaIDsFlat(schema, content) ==
  IF content = Junk THEN {} ELSE ImagesOf(schema, content)

\* CollectMediaIDs: image fields, and image fields of list items.
CollectMediaIDs(schema, content) ==
  IF content = Junk THEN {}
  ELSE LET lists == {k \in DOMAIN schema \cap DOMAIN content : IsList(schema[k])}
           images(k) == {ImagesOf(schema[k].fields, Object(Items(content[k])[i])) :
                           i \in DOMAIN Items(content[k])}
       IN  ImagesOf(schema, content) \cup UNION (UNION {images(k) : k \in lists})

\* buildBlock renders an object; for anything else it returns an error, and
\* with it the whole build fails.
Renders(content) == content # Junk

\* buildBlock and buildItem: the ids whose URL a block that renders asks for.
RenderedImages(schema, content) ==
  {id \in Strings : Renders(content) /\ \E k \in DOMAIN schema \cap DOMAIN content :
     \/ schema[k].type = "image" /\ content[k] = id
     \/ /\ IsList(schema[k])
        /\ \E i \in DOMAIN Items(content[k]) :
             LET item == Object(Items(content[k])[i])
             IN  \E sub \in DOMAIN schema[k].fields \cap DOMAIN item :
                   schema[k].fields[sub].type = "image" /\ item[sub] = id}
=============================================================================
