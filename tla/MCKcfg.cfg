CONSTANTS
  Bits <- MCBits
  FieldMapping <- MCFieldMapping
  KeyOf <- MCKeyOf
  Schemas <- MCSchemas
  Docs <- MCDocs
  MaxElements = 3
SPECIFICATION Spec
INVARIANTS
  
  NoWrap
  
